---- MODULE Spec2Model ----
(***************************************************************************)
(* Lead-generation pipeline of veneer-lead-agent.                          *)
(*                                                                         *)
(*   Spec        run_lead_generation_process (agent_runner.py) driving     *)
(*               perform_search (url_processor.py),                        *)
(*               extract_companies_from_url and analyze_company            *)
(*               (company_extractor.py)                                    *)
(*   SpecSearch  perform_search / parse_url_list / the TLD filter applied  *)
(*               to one output of the search collaborator                  *)
(*   SpecRetry   the retry decorator (utils/error_handler.py)              *)
(*                                                                         *)
(* A Python str that the code inspects character by character (names,      *)
(* websites) is a tuple of one-character strings; a str that is only       *)
(* compared or passed on is a TLA+ string.                                 *)
(***************************************************************************)
EXTENDS Integers, Sequences, FiniteSets, TLC

VARIABLES
    \* --- run_lead_generation_process ---
    selected_segment_names,        \* the argument: [kind, names]
    pc,                            \* "idle" | "start" | "segment" | "url" | "candidate" | "done" | "raised"
    segments_to_actually_process,  \* sequence of SEGMENT_NAMEs
    seg_idx,                       \* position of the segment loop (1-based)
    urls_to_process,               \* url_list[:MAX_URLS_TO_PROCESS] of the current segment
    url_idx,                       \* position of the URL loop
    extracted_company_data,        \* candidates of the current URL
    cand_idx,                      \* position of the candidate loop
    all_processed_companies,       \* the output list
    processed_websites_this_run,   \* the set of normalized websites
    run_errors,                    \* run_error_collector.errors
    result,                        \* what the call returned
    \* --- what the collaborators saw (history) ---
    visited_segments,              \* SEGMENT_NAMEs whose loop body was entered, in order
    search_calls,                  \* SEGMENT_NAMEs for which the search crew was kicked off
    search_raised,                 \* per kick-off of the search crew: did perform_search catch an exception
    extraction_log,                \* events of the latest extract_companies_from_url call
    analyze_calls,                 \* arguments of the analyze_company calls, in order
    sleeps,                        \* durations (ms) of the courtesy time.sleep calls
    last_outcome,                  \* what the latest candidate iteration did
    \* --- perform_search on its own ---
    s_pc, s_kickoff, s_result,
    \* --- retry wrapper ---
    r_pc, r_max_attempts, r_delay, r_backoff, r_script,
    mtries, mdelay, r_calls, r_sleeps, r_raised,
    \* --- module start-up of agent_runner ---
    initial_errors,                \* initial_error_collector.errors
    \* --- APICache ---
    c_ttl,                         \* ttl_seconds of the cache
    cache,                         \* self.cache: key -> [value, timestamp]
    now,                           \* time.time()
    c_log,                         \* the calls of the cached wrapper, in order
    \* --- a pure function applied to one input ---
    fn_pc, fn_input, fn_output

run_vars == <<selected_segment_names, pc, segments_to_actually_process, seg_idx,
              urls_to_process, url_idx, extracted_company_data, cand_idx,
              all_processed_companies, processed_websites_this_run, run_errors,
              result, visited_segments, search_calls, search_raised, extraction_log,
              analyze_calls, sleeps, last_outcome>>
search_vars == <<s_pc, s_kickoff, s_result>>
retry_vars == <<r_pc, r_max_attempts, r_delay, r_backoff, r_script,
                mtries, mdelay, r_calls, r_sleeps, r_raised>>
cache_vars == <<c_ttl, cache, now, c_log>>
fn_vars == <<fn_pc, fn_input, fn_output>>
aux_vars == <<cache_vars, fn_vars>>
startup_vars == <<initial_errors>>

vars == <<run_vars, startup_vars, search_vars, retry_vars, aux_vars>>

\* ------------------------------------------------------------------------
\* Bounds of the model
\* ------------------------------------------------------------------------
MaxUrlItems == 3        \* items in one output of the search collaborator
MaxAttemptsBound == 3   \* largest max_attempts given to retry
MaxDelay == 2           \* largest initial delay given to retry
MaxBackoff == 2         \* largest backoff multiplier given to retry
MaxScript == 3          \* longest prefix of failing calls of a retried function
MaxCacheCalls == 2      \* calls of a cached wrapper in one behaviour
MaxTime == 4            \* last instant of the clock
MaxTtl == 2             \* largest ttl_seconds
MaxWebsiteLen == 4      \* characters of a website given to the normalization
MaxItems == 2           \* list items in one analysis text
MaxCompanyItems == 3    \* items in one output of the extraction collaborator
MaxCandidates == 3      \* most candidates one extraction hands to the candidate loop

Min(a, b) == IF a < b THEN a ELSE b

\* ------------------------------------------------------------------------
\* Python str methods
\* ------------------------------------------------------------------------
UpperChars == <<"A","B","C","D","E","F","G","H","I","J","K","L","M",
                "N","O","P","Q","R","S","T","U","V","W","X","Y","Z">>
LowerChars == <<"a","b","c","d","e","f","g","h","i","j","k","l","m",
                "n","o","p","q","r","s","t","u","v","w","x","y","z">>
Whitespace == {" ", "\t", "\n", "\r"}

lower_char(c) ==
    IF \E i \in 1..26 : UpperChars[i] = c
    THEN LowerChars[CHOOSE i \in 1..26 : UpperChars[i] = c]
    ELSE c

RECURSIVE lower(_)
lower(s) == IF s = <<>> THEN <<>> ELSE <<lower_char(Head(s))>> \o lower(Tail(s))

RECURSIVE lstrip(_, _)
lstrip(s, chars) ==
    IF s # <<>> /\ Head(s) \in chars THEN lstrip(Tail(s), chars) ELSE s

RECURSIVE rstrip(_, _)
rstrip(s, chars) ==
    IF s # <<>> /\ s[Len(s)] \in chars
    THEN rstrip(SubSeq(s, 1, Len(s) - 1), chars)
    ELSE s

strip(s) == rstrip(lstrip(s, Whitespace), Whitespace)

startswith(s, prefix) ==
    Len(s) >= Len(prefix) /\ SubSeq(s, 1, Len(prefix)) = prefix

\* str.replace: the non-overlapping occurrences of old, scanned left to right
RECURSIVE replace(_, _, _)
replace(s, old, new) ==
    IF s = <<>> THEN <<>>
    ELSE IF startswith(s, old)
         THEN new \o replace(SubSeq(s, Len(old) + 1, Len(s)), old, new)
         ELSE <<Head(s)>> \o replace(Tail(s), old, new)

\* company_website.strip().lower().replace('www.','').rstrip('/')
normalized_website(company_website) ==
    rstrip(replace(lower(strip(company_website)), <<"w","w","w",".">>, <<>>), {"/"})

\* ------------------------------------------------------------------------
\* Configuration (config.py)
\* ------------------------------------------------------------------------
MAX_URLS_TO_PROCESS == 10
API_RETRY_DELAY == 2

GENERIC_COMPANY_NAMES ==
    { <<"c","o","m","p","a","n","y">>,
      <<"o","r","g","a","n","i","z","a","t","i","o","n">>,
      <<"t","h","e"," ","f","i","r","m">>,
      <<"c","l","i","e","n","t">>,
      <<"e","x","a","m","p","l","e">>,
      <<"t","e","s","t">>,
      <<"n","o","n","e">>,
      <<"n","/","a">>,
      <<"w","e","b","s","i","t","e">>,
      <<"u","r","l">> }

\* SEGMENT_NAME of each entry of SJ_MORSE_PROFILE["TARGET_SEGMENTS"], in order
TARGET_SEGMENTS ==
    << "Architects & Interior Designers (Corporate & Luxury Focus)",
       "Specialty Millwork & Architectural Woodworking Shops",
       "Institutional & End-User Owners (Corporate, Govt, Healthcare, Education)",
       "Luxury Residential, Yacht & Private Aviation Outfitters" >>

\* ------------------------------------------------------------------------
\* Search stage: parse_url_list (utils/parser.py) and perform_search
\* (url_processor.py)
\*
\* A URL string is the record of its parts:
\*   scheme, hostname (urlparse(..).hostname split at '.', lower-cased by
\*   urlparse; <<>> when there is none), path and its extension, trailing
\*   (punctuation that
\*   follows the URL in running text), valid (FALSE: urlparse raises
\*   ValueError), isstr (FALSE: the list item is not a str at all).
\* The text returned by the collaborator is [kind, items]: a JSON array, a
\* Python-literal list, a JSON object, or prose mentioning the items.
\* ------------------------------------------------------------------------
Url(scheme, hostname, path, ext) ==
    [scheme |-> scheme, hostname |-> hostname, path |-> path, ext |-> ext,
     trailing |-> "", valid |-> TRUE, isstr |-> TRUE]

U_com    == Url("https", <<"example", "com">>, "/list", "")
U_org    == Url("http", <<"builders", "org">>, "/members", ".html")
U_de     == Url("https", <<"firma", "de">>, "/liste", "")
U_couk   == Url("https", <<"shop", "co", "uk">>, "/dir", "")
U_single == Url("http", <<"uk">>, "/", "")
U_nohost == Url("https", <<>>, "/orphan", "")
U_png    == Url("https", <<"example", "com">>, "/logo", ".png")
U_ftp    == Url("ftp", <<"example", "com">>, "/list", "")
U_dot    == [U_com EXCEPT !.trailing = "."]
U_bad    == [Url("http", <<"[">>, "/x", "") EXCEPT !.valid = FALSE]
N_five   == [Url("", <<>>, "5", "") EXCEPT !.isstr = FALSE]

UrlItems == {U_com, U_org, U_de, U_couk, U_single, U_nohost, U_png, U_ftp,
             U_dot, U_bad, N_five}

TextKinds == {"json_list", "literal_list", "json_object", "prose"}

RECURSIVE SeqsUpTo(_, _)
SeqsUpTo(S, n) ==
    IF n = 0 THEN {<<>>}
    ELSE LET shorter == SeqsUpTo(S, n - 1)
         IN shorter \cup {Append(s, x) : s \in {t \in shorter : Len(t) = n - 1}, x \in S}

\* item.strip().startswith('http')
starts_with_http(item) == item.scheme \in {"http", "https"}

\* json.loads(cleaned_output): the parsed value, or a JSONDecodeError
json_loads(text) ==
    CASE text.kind = "json_list"   -> [kind |-> "list", items |-> text.items]
      [] text.kind = "json_object" -> [kind |-> "dict", items |-> <<>>]
      [] OTHER                     -> [kind |-> "error", items |-> <<>>]

\* ast.literal_eval(cleaned_output): a JSON array of strings is a Python list too
literal_eval(text) ==
    CASE text.kind \in {"json_list", "literal_list"} ->
             [kind |-> "list", items |-> text.items]
      [] text.kind = "json_object" -> [kind |-> "dict", items |-> <<>>]
      [] OTHER                     -> [kind |-> "error", items |-> <<>>]

\* re.findall(url_pattern, cleaned_output): the pattern wants http(s)://, a
\* dotted host made of its character class, and takes trailing punctuation in
url_pattern_matches(item) ==
    /\ item.isstr /\ item.valid
    /\ item.scheme \in {"http", "https"}
    /\ Len(item.hostname) >= 2

re_findall_urls(text) == SelectSeq(text.items, url_pattern_matches)

\* url.strip('.,)("\'')
strip_punctuation(url) == [url EXCEPT !.trailing = ""]

RECURSIVE strip_each(_)
strip_each(urls) ==
    IF urls = <<>> THEN <<>>
    ELSE <<strip_punctuation(Head(urls))>> \o strip_each(Tail(urls))

\* url.endswith(('.png', '.jpg', ...))
AssetSuffixes == {".png", ".jpg", ".jpeg", ".gif", ".css", ".js", ".svg", ".webp"}
ends_with_asset(url) == url.ext \in AssetSuffixes

\* "Remove duplicates while preserving order"
RECURSIVE unique_urls(_, _)
unique_urls(urls, acc) ==
    IF urls = <<>> THEN acc
    ELSE unique_urls(Tail(urls),
                     IF \E i \in 1..Len(acc) : acc[i] = Head(urls)
                     THEN acc ELSE Append(acc, Head(urls)))

http_strings(items) ==
    SelectSeq(items, LAMBDA item : item.isstr /\ starts_with_http(item))

parse_url_list_regex(text) ==
    LET cleaned == strip_each(re_findall_urls(text))
        pages   == SelectSeq(cleaned, LAMBDA url : ~ends_with_asset(url))
    IN unique_urls(pages, <<>>)

\* the regular expression consulted before the two list strategies
parse_url_list_regex_first(text) ==
    LET json_data == json_loads(text)
        json_urls == IF json_data.kind = "list" THEN http_strings(json_data.items) ELSE <<>>
    IN IF text.kind = "not_str" THEN <<>>
       ELSE IF parse_url_list_regex(text) # <<>> THEN parse_url_list_regex(text)
       ELSE json_urls

\* "if not isinstance(agent_output, str): return urls", then Method 1, 2, 3
parse_url_list(text) ==
    LET json_data == json_loads(text)
        json_urls == IF json_data.kind = "list" THEN http_strings(json_data.items) ELSE <<>>
        potential_list == literal_eval(text)
        literal_urls == IF potential_list.kind = "list"
                        THEN http_strings(potential_list.items) ELSE <<>>
    IN IF text.kind = "not_str" THEN <<>>
       ELSE IF json_urls # <<>> THEN json_urls
       ELSE IF literal_urls # <<>> THEN literal_urls
       ELSE parse_url_list_regex(text)

\* ------------------------------------------------------------------------
\* perform_search: the TLD filter and the guarded crew kick-off
\* ------------------------------------------------------------------------
disallowed_country_tlds ==
    { ".ac", ".ad", ".ae", ".af", ".ag", ".ai", ".al", ".am", ".an", ".ao",
      ".aq", ".ar", ".as", ".at", ".au", ".aw", ".ax", ".az", ".ba", ".bb",
      ".bd", ".be", ".bf", ".bg", ".bh", ".bi", ".bj", ".bm", ".bn", ".bo",
      ".br", ".bs", ".bt", ".bv", ".bw", ".by", ".bz", ".ca", ".cc", ".cd",
      ".cf", ".cg", ".ch", ".ci", ".ck", ".cl", ".cm", ".cn", ".co", ".cr",
      ".cu", ".cv", ".cx", ".cy", ".cz", ".de", ".dj", ".dk", ".dm", ".do",
      ".dz", ".ec", ".ee", ".eg", ".er", ".es", ".et", ".eu", ".fi", ".fj",
      ".fk", ".fm", ".fo", ".fr", ".ga", ".gb", ".gd", ".ge", ".gf", ".gg",
      ".gh", ".gi", ".gl", ".gm", ".gn", ".gp", ".gq", ".gr", ".gs", ".gt",
      ".gu", ".gw", ".gy", ".hk", ".hm", ".hn", ".hr", ".ht", ".hu", ".id",
      ".ie", ".il", ".im", ".in", ".io", ".iq", ".ir", ".is", ".it", ".je",
      ".jm", ".jo", ".jp", ".ke", ".kg", ".kh", ".ki", ".km", ".kn", ".kp",
      ".kr", ".kw", ".ky", ".kz", ".la", ".lb", ".lc", ".li", ".lk", ".lr",
      ".ls", ".lt", ".lu", ".lv", ".ly", ".ma", ".mc", ".md", ".me", ".mg",
      ".mh", ".mk", ".ml", ".mm", ".mn", ".mo", ".mp", ".mq", ".mr", ".ms",
      ".mt", ".mu", ".mv", ".mw", ".mx", ".my", ".mz", ".na", ".nc", ".ne",
      ".nf", ".ng", ".ni", ".nl", ".no", ".np", ".nr", ".nu", ".nz", ".om",
      ".pa", ".pe", ".pf", ".pg", ".ph", ".pk", ".pl", ".pm", ".pn", ".pr",
      ".ps", ".pt", ".pw", ".py", ".qa", ".re", ".ro", ".rs", ".ru", ".rw",
      ".sa", ".sb", ".sc", ".sd", ".se", ".sg", ".sh", ".si", ".sj", ".sk",
      ".sl", ".sm", ".sn", ".so", ".sr", ".st", ".sv", ".sy", ".sz", ".tc",
      ".td", ".tf", ".tg", ".th", ".tj", ".tk", ".tl", ".tm", ".tn", ".to",
      ".tp", ".tr", ".tt", ".tv", ".tw", ".tz", ".ua", ".ug", ".uk", ".uy",
      ".uz", ".va", ".vc", ".ve", ".vg", ".vi", ".vn", ".vu", ".wf", ".ws",
      ".ye", ".yt", ".za", ".zm", ".zw" }

\* the is_disallowed flag computed for one hostname
is_disallowed(hostname) ==
    LET domain_parts == hostname
        n == Len(domain_parts)
    IN IF n >= 2
       THEN IF ("." \o domain_parts[n]) \in disallowed_country_tlds
            THEN TRUE
            ELSE n >= 3 /\ ("." \o domain_parts[n - 1] \o "." \o domain_parts[n])
                               \in disallowed_country_tlds
       ELSE FALSE

\* one iteration of "for url_str in url_list": TRUE when url_str is appended
keeps_url_needs_hostname(url_str) ==
    url_str.valid /\ url_str.hostname # <<>> /\ ~is_disallowed(url_str.hostname)
keeps_url(url_str) ==
    IF ~url_str.valid THEN TRUE                       \* except Exception: keep
    ELSE IF url_str.hostname # <<>>
         THEN ~is_disallowed(url_str.hostname)
         ELSE TRUE                                    \* no hostname: keep

RECURSIVE filter_tlds(_, _)
filter_tlds(url_list, filtered_urls) ==
    IF url_list = <<>> THEN filtered_urls
    ELSE filter_tlds(Tail(url_list),
                     IF keeps_url(Head(url_list))
                     THEN Append(filtered_urls, Head(url_list))
                     ELSE filtered_urls)

\* What search_crew.kickoff() does: raises, returns nothing, returns an
\* object that is neither CrewOutput nor str, or returns text.
KickoffKinds == {"raise", "none", "other", "text"}

\* The value of a guarded call: exc tells whether an exception leaves it.
Returned(v) == [exc |-> FALSE, val |-> v]
Raised == [exc |-> TRUE, val |-> <<>>]

\* Python's None
None == [is_none |-> TRUE]

perform_search_unguarded(research_agent, tasks, kickoff) ==
    IF ~research_agent THEN Returned(<<>>)
    ELSE IF Len(tasks) < 1 THEN Returned(<<>>)
    ELSE IF kickoff.kind = "raise" THEN Raised
    ELSE IF kickoff.kind \in {"none", "other"} THEN Returned(<<>>)
    ELSE IF kickoff.kind = "bad_raw" THEN Raised
    ELSE LET url_list == parse_url_list(kickoff.text)
         IN IF url_list # <<>>
            THEN Returned(filter_tlds(url_list, <<>>))
            ELSE Returned(url_list)
perform_search_parse_unguarded(research_agent, tasks, kickoff) ==
    IF ~research_agent THEN Returned(<<>>)
    ELSE IF Len(tasks) < 1 THEN Returned(<<>>)
    ELSE IF kickoff.kind = "raise" THEN Returned(<<>>)
    ELSE IF kickoff.kind \in {"none", "other"} THEN Returned(<<>>)
    ELSE IF kickoff.kind = "bad_raw" THEN Raised
    ELSE LET url_list == parse_url_list(kickoff.text)
         IN IF url_list # <<>>
            THEN Returned(filter_tlds(url_list, <<>>))
            ELSE Returned(url_list)
perform_search(research_agent, tasks, kickoff) ==
    IF ~research_agent THEN Returned(<<>>)
    ELSE IF Len(tasks) < 1 THEN Returned(<<>>)
    ELSE IF kickoff.kind = "raise" THEN Returned(<<>>)     \* except Exception: logged
    ELSE IF kickoff.kind \in {"none", "other"} THEN Returned(<<>>)
    \* a CrewOutput whose raw is no string: raw_output[:500] raises inside the try
    ELSE IF kickoff.kind = "bad_raw" THEN Returned(<<>>)
    ELSE LET url_list == parse_url_list(kickoff.text)
         IN IF url_list # <<>>
            THEN Returned(filter_tlds(url_list, <<>>))
            ELSE Returned(url_list)

\* ------------------------------------------------------------------------
\* SpecSearch: perform_search applied to one output of the search crew
\* ------------------------------------------------------------------------
NoText == [kind |-> "prose", items |-> <<>>]

SearchKickoffs ==
    {[kind |-> k, text |-> NoText] : k \in {"raise", "none", "other", "bad_raw"}}
    \cup {[kind |-> "text", text |-> [kind |-> tk, items |-> its]] :
              tk \in TextKinds, its \in SeqsUpTo(UrlItems, MaxUrlItems)}

RunIdle ==
    /\ selected_segment_names = [kind |-> "none", names |-> <<>>]
    /\ pc = "idle"
    /\ segments_to_actually_process = <<>>
    /\ seg_idx = 0
    /\ urls_to_process = <<>>
    /\ url_idx = 0
    /\ extracted_company_data = <<>>
    /\ cand_idx = 0
    /\ all_processed_companies = <<>>
    /\ processed_websites_this_run = {}
    /\ run_errors = <<>>
    /\ result = [kind |-> "pending"]
    /\ visited_segments = <<>>
    /\ search_calls = <<>>
    /\ search_raised = <<>>
    /\ extraction_log = <<>>
    /\ analyze_calls = <<>>
    /\ sleeps = <<>>
    /\ last_outcome = "none"

SearchIdle ==
    /\ s_pc = "idle"
    /\ s_kickoff = [kind |-> "none", text |-> NoText]
    /\ s_result = <<>>

RetryIdle ==
    /\ r_pc = "idle"
    /\ r_max_attempts = 0
    /\ r_delay = 0
    /\ r_backoff = 0
    /\ r_script = <<>>
    /\ mtries = 0
    /\ mdelay = 0
    /\ r_calls = 0
    /\ r_sleeps = <<>>
    /\ r_raised = 0

StartupIdle == initial_errors = <<>>

CacheIdle ==
    /\ c_ttl = 0
    /\ cache = <<>>
    /\ now = 0
    /\ c_log = <<>>

FnIdle ==
    /\ fn_pc = "idle"
    /\ fn_input = <<>>
    /\ fn_output = <<>>

InitSearch ==
    /\ RunIdle /\ StartupIdle /\ RetryIdle /\ CacheIdle /\ FnIdle
    /\ s_pc = "call"
    /\ s_kickoff \in SearchKickoffs
    /\ s_result = <<>>

\* url_list = perform_search(agents, search_tasks)
PerformSearch ==
    /\ s_pc = "call"
    /\ s_result' = perform_search(TRUE, <<"plan_search_task", "execute_search_task">>,
                                  s_kickoff).val
    /\ s_pc' = "returned"
    /\ UNCHANGED <<s_kickoff, run_vars, retry_vars, aux_vars, startup_vars>>

NextSearch == PerformSearch

SpecSearch == InitSearch /\ [][NextSearch]_vars

\* ---- claims about the search stage ----
NoDuplicates(s) == \A i, j \in 1..Len(s) : i # j => s[i] # s[j]

\* C7: perform_search returns a list in which no URL occurs twice, whichever
\* parsing strategy produced the URLs.
C7_NoUrlTwice == s_pc = "returned" => NoDuplicates(s_result)

LastLabelListed(h) == ("." \o h[Len(h)]) \in disallowed_country_tlds
LastTwoListed(h) ==
    Len(h) >= 2 /\ ("." \o h[Len(h) - 1] \o "." \o h[Len(h)]) \in disallowed_country_tlds
HostnameUnknown(u) == ~u.valid \/ u.hostname = <<>>

\* C8 as stated: a parsed URL is kept iff its hostname cannot be determined or
\* neither its final label nor its final two labels are on the denylist; the
\* kept URLs keep their order.
C8_TldFilter ==
    (s_pc = "returned" /\ s_kickoff.kind = "text") =>
        s_result = SelectSeq(parse_url_list(s_kickoff.text),
                             LAMBDA u : \/ HostnameUnknown(u)
                                        \/ /\ ~LastLabelListed(u.hostname)
                                           /\ ~LastTwoListed(u.hostname))

\* C8 amended: a parsed URL is kept iff its hostname cannot be determined, or
\* has a single label, or neither its final label nor its final two labels are
\* on the denylist; the kept URLs keep their order.
C8_TldFilterTwoLabels ==
    (s_pc = "returned" /\ s_kickoff.kind = "text") =>
        s_result = SelectSeq(parse_url_list(s_kickoff.text),
                             LAMBDA u : \/ HostnameUnknown(u)
                                        \/ Len(u.hostname) < 2
                                        \/ /\ ~LastLabelListed(u.hostname)
                                           /\ ~LastTwoListed(u.hostname))

C8_Witness ==
    /\ s_pc = "returned"
    /\ parse_url_list(s_kickoff.text) = <<U_de, U_com, U_nohost>>
    /\ s_result = <<U_com, U_nohost>>

\* ------------------------------------------------------------------------
\* Retry decorator (utils/error_handler.py; utils/logging_utils.py holds a
\* copy with the same control flow).
\*
\* The wrapped function fails on its first Len(r_script) calls, call k with
\* the exception r_script[k], and succeeds afterwards.  An exception is
\* [caught, message]: caught says whether it is an instance of the
\* decorator's `exceptions`, message is str(e).
\* ------------------------------------------------------------------------
Exceptions ==
    { [caught |-> TRUE,  message |-> "429 Rate limit exceeded"],
      [caught |-> TRUE,  message |-> "Read Timeout"],
      [caught |-> TRUE,  message |-> "404 Not Found"],
      [caught |-> FALSE, message |-> "Rate limit exceeded"] }

\* "rate limit" in str(e).lower() or "timeout" in str(e).lower()
is_retriable_always(e) == TRUE
is_retriable(e) == e.message \in {"429 Rate limit exceeded", "Read Timeout",
                                 "Rate limit exceeded"}

\* while mtries > 1
in_retry_loop_eager(m) == m > 0
in_retry_loop(m) == m > 1

\* mdelay *= backoff
next_delay_flat(d, backoff) == d
next_delay(d, backoff) == d * backoff

\* func(*args, **kwargs) on its k-th call
func_fails(k) == k <= Len(r_script)

InitRetry ==
    /\ RunIdle /\ StartupIdle /\ SearchIdle /\ CacheIdle /\ FnIdle
    /\ r_max_attempts \in 1..MaxAttemptsBound
    /\ r_delay \in 0..MaxDelay
    /\ r_backoff \in 1..MaxBackoff
    /\ r_script \in SeqsUpTo(Exceptions, MaxScript)
    /\ r_pc = "loop"
    /\ mtries = r_max_attempts                  \* mtries, mdelay = max_attempts, delay
    /\ mdelay = r_delay
    /\ r_calls = 0
    /\ r_sleeps = <<>>
    /\ r_raised = 0

\* one pass of the while body: the call, and the except clause
LoopAttempt ==
    /\ r_pc = "loop"
    /\ in_retry_loop(mtries)
    /\ r_calls' = r_calls + 1
    /\ IF ~func_fails(r_calls + 1)
       THEN /\ r_pc' = "returned"
            /\ UNCHANGED <<mtries, mdelay, r_sleeps, r_raised>>
       ELSE LET e == r_script[r_calls + 1]
            IN IF e.caught /\ is_retriable(e)
               THEN /\ r_sleeps' = Append(r_sleeps, mdelay)     \* time.sleep(mdelay)
                    /\ mtries' = mtries - 1
                    /\ mdelay' = next_delay(mdelay, r_backoff)
                    /\ UNCHANGED <<r_pc, r_raised>>
               ELSE /\ r_pc' = "raised"                         \* raise, or not caught
                    /\ r_raised' = r_calls + 1
                    /\ UNCHANGED <<mtries, mdelay, r_sleeps>>
    /\ UNCHANGED <<r_max_attempts, r_delay, r_backoff, r_script, run_vars, search_vars, aux_vars, startup_vars>>

\* "Final attempt": return func(*args, **kwargs) outside any try
FinalAttempt ==
    /\ r_pc = "loop"
    /\ ~in_retry_loop(mtries)
    /\ r_calls' = r_calls + 1
    /\ IF ~func_fails(r_calls + 1)
       THEN r_pc' = "returned" /\ UNCHANGED r_raised
       ELSE r_pc' = "raised" /\ r_raised' = r_calls + 1
    /\ UNCHANGED <<mtries, mdelay, r_sleeps>>
    /\ UNCHANGED <<r_max_attempts, r_delay, r_backoff, r_script, run_vars, search_vars, aux_vars, startup_vars>>

NextRetry == LoopAttempt \/ FinalAttempt

SpecRetry == InitRetry /\ [][NextRetry]_vars

\* ---- claims about the retry decorator ----
RetryDone == r_pc \in {"returned", "raised"}
AllRetriable == \A k \in 1..Len(r_script) : r_script[k].caught /\ is_retriable(r_script[k])
StrictlyIncreasing(s) == \A i \in 1..(Len(s) - 1) : s[i] < s[i + 1]
Geometric(s, first, ratio) ==
    \A i \in 1..Len(s) : s[i] = IF i = 1 THEN first ELSE s[i - 1] * ratio

\* C9 as stated: a function that raises a retriable exception on its first N
\* calls and then succeeds is returned from after N + 1 calls and N sleeps of
\* strictly increasing duration.
C9_SucceedsAfterNRetries ==
    (RetryDone /\ AllRetriable) =>
        /\ r_pc = "returned"
        /\ r_calls = Len(r_script) + 1
        /\ Len(r_sleeps) = Len(r_script)
        /\ StrictlyIncreasing(r_sleeps)

\* C9 amended: the same for N < max_attempts; the sleeps are delay,
\* delay*backoff, delay*backoff^2, ..., strictly increasing when delay > 0 and
\* backoff > 1.
C9_SucceedsWithinBudget ==
    (RetryDone /\ AllRetriable /\ Len(r_script) < r_max_attempts) =>
        /\ r_pc = "returned"
        /\ r_calls = Len(r_script) + 1
        /\ Len(r_sleeps) = Len(r_script)
        /\ Geometric(r_sleeps, r_delay, r_backoff)
        /\ (r_delay > 0 /\ r_backoff > 1) => StrictlyIncreasing(r_sleeps)

C9_Witness ==
    /\ r_pc = "returned"
    /\ AllRetriable
    /\ Len(r_script) = 2
    /\ r_calls = 3
    /\ r_sleeps = <<2, 4>>

\* C10: when every attempt raises a retriable exception the function is called
\* max_attempts times and no more, and the wrapper then raises the exception
\* of the last attempt.
C10_BudgetExhausted ==
    (AllRetriable /\ Len(r_script) >= r_max_attempts) =>
        /\ r_calls <= r_max_attempts
        /\ r_pc = "loop" => r_calls < r_max_attempts
        /\ r_pc # "returned"
        /\ r_pc = "raised" => (r_calls = r_max_attempts /\ r_raised = r_max_attempts)

C10_Witness ==
    /\ r_pc = "raised"
    /\ AllRetriable
    /\ r_max_attempts = 3
    /\ r_calls = 3
    /\ Len(r_sleeps) = 2

\* the message of the pool that holds neither 'rate limit' nor 'timeout'
MatchesNoHeuristic(e) == e.message = "404 Not Found"

\* C11: when a call of the wrapped function raises an exception whose message
\* matches neither heuristic, the wrapper raises it at once: that call is the
\* last one and no sleep follows it.
C11_OtherErrorsRaisedAtOnce ==
    \A k \in 1..r_calls :
        (func_fails(k) /\ MatchesNoHeuristic(r_script[k])) =>
            /\ r_pc = "raised"
            /\ r_raised = k
            /\ r_calls = k
            /\ Len(r_sleeps) = k - 1

C11_Witness ==
    /\ r_pc = "raised"
    /\ r_max_attempts = 3
    /\ r_calls = 2
    /\ r_script[1].message = "Read Timeout"
    /\ r_script[2].message = "404 Not Found"
    /\ Len(r_sleeps) = 1

\* ------------------------------------------------------------------------
\* APICache (utils/api_cache.py)
\*
\* A call is [func, args, kwargs]; an argument is [type, text] with text its
\* str().  hashlib.md5 is taken to be collision-free, so a key is the string
\* that is hashed.
\* ------------------------------------------------------------------------
Arg(type, text) == [type |-> type, text |-> text]
Kw(k, v) == [k |-> k, v |-> v]
Call(func, args, kwargs) == [func |-> func, args |-> args, kwargs |-> kwargs]

\* str(arg), and f"{k}={v}"
str(arg) == arg.text

\* keyword names in the order sorted() gives them
KwNames == <<"page", "q">>
kw_rank(k) == CHOOSE i \in 1..Len(KwNames) : KwNames[i] = k

\* for k in sorted(kwargs.keys())
RECURSIVE sorted_kwargs(_)
sorted_kwargs(kwargs) ==
    IF kwargs = {} THEN <<>>
    ELSE LET first == CHOOSE x \in kwargs :
                          \A y \in kwargs : kw_rank(x.k) <= kw_rank(y.k)
         IN <<first>> \o sorted_kwargs(kwargs \ {first})

RECURSIVE arg_parts(_)
arg_parts(args) ==
    IF args = <<>> THEN <<>> ELSE <<str(Head(args))>> \o arg_parts(Tail(args))

RECURSIVE kwarg_parts(_)
kwarg_parts(kws) ==
    IF kws = <<>> THEN <<>>
    ELSE <<Head(kws).k \o "=" \o str(Head(kws).v)>> \o kwarg_parts(Tail(kws))

\* "|".join(key_parts)
RECURSIVE join(_)
join(parts) ==
    IF parts = <<>> THEN ""
    ELSE IF Len(parts) = 1 THEN parts[1]
    ELSE parts[1] \o "|" \o join(Tail(parts))

generate_key(func_name, args, kwargs) ==
    join(<<func_name>> \o arg_parts(args) \o kwarg_parts(sorted_kwargs(kwargs)))

Val(x) == [is_none |-> FALSE, v |-> x]

\* APICache.get: the value returned and the cache it leaves
cache_get(c, key, t, ttl_seconds) ==
    IF key \notin DOMAIN c THEN [value |-> None, cache |-> c]
    ELSE IF t - c[key].timestamp > ttl_seconds
    THEN [value |-> None, cache |-> [k \in DOMAIN c \ {key} |-> c[k]]]
    ELSE [value |-> c[key].value, cache |-> c]

\* set that also drops every entry stored before this instant
cache_set_evicting(c, key, value, t) ==
    [k \in {x \in DOMAIN c : c[x].timestamp = t} \cup {key} |->
        IF k = key THEN [value |-> value, timestamp |-> t] ELSE c[k]]

\* APICache.set
cache_set(c, key, value, t) ==
    [k \in DOMAIN c \cup {key} |->
        IF k = key THEN [value |-> value, timestamp |-> t] ELSE c[k]]

\* cached_result is not None
is_hit(cached_result) == cached_result # None

Signatures ==
    { Call("search", <<Arg("str", "veneer")>>, {}),
      Call("search", <<Arg("str", "1")>>, {}),
      Call("search", <<Arg("int", "1")>>, {}),
      Call("search", <<Arg("str", "veneer")>>, {Kw("q", Arg("str", "x")), Kw("page", Arg("int", "2"))}) }

ReturnValues == {None, Val(0), Val(1)}

EmptyCache == [k \in {} |-> None]

InitCache ==
    /\ RunIdle /\ StartupIdle /\ SearchIdle /\ RetryIdle /\ FnIdle
    /\ c_ttl \in 0..MaxTtl
    /\ cache = EmptyCache
    /\ now = 0
    /\ c_log = <<>>

\* wrapper(*args, **kwargs) of APICache.cached and of cached_api_call
CachedCall ==
    /\ Len(c_log) < MaxCacheCalls
    /\ \E sig \in Signatures, value \in ReturnValues :
         LET key == generate_key(sig.func, sig.args, sig.kwargs)
             got == cache_get(cache, key, now, c_ttl)
         IN IF is_hit(got.value)
            THEN /\ cache' = got.cache
                 /\ c_log' = Append(c_log,
                        [sig |-> sig, key |-> key, time |-> now, invoked |-> FALSE,
                         returned |-> got.value,
                         stored_at |-> got.cache[key].timestamp])
            ELSE /\ cache' = cache_set(got.cache, key, value, now)
                 /\ c_log' = Append(c_log,
                        [sig |-> sig, key |-> key, time |-> now, invoked |-> TRUE,
                         returned |-> value, stored_at |-> now])
    /\ UNCHANGED <<c_ttl, now, run_vars, startup_vars, search_vars, retry_vars, fn_vars>>

\* time passes
Tick ==
    /\ \E d \in 1..MaxTime : now + d <= MaxTime /\ now' = now + d
    /\ UNCHANGED <<c_ttl, cache, c_log, run_vars, startup_vars, search_vars, retry_vars, fn_vars>>

NextCache == CachedCall \/ Tick

SpecCache == InitCache /\ [][NextCache]_vars

\* two calls with identical arguments and no call on their key in between
SuccessiveCalls(i, j) ==
    /\ i < j
    /\ c_log[i].sig = c_log[j].sig
    /\ \A k \in (i + 1)..(j - 1) : c_log[k].key # c_log[i].key

\* C29: within one APICache, calls that differ in the function, in the
\* positional arguments or in the keyword arguments have different keys, and
\* a call answered from the cache is answered with the value stored by an
\* earlier call of the same signature.
C29_DistinctCallsDistinctKeys ==
    /\ \A i, j \in 1..Len(c_log) :
          c_log[i].sig # c_log[j].sig => c_log[i].key # c_log[j].key
    /\ \A j \in 1..Len(c_log) :
          ~c_log[j].invoked =>
              \E i \in 1..(j - 1) :
                  /\ c_log[i].sig = c_log[j].sig
                  /\ c_log[i].invoked
                  /\ c_log[i].returned = c_log[j].returned

\* C12: of two successive calls with identical arguments, the second, when
\* made within ttl_seconds of the moment the value was stored, does not invoke
\* the function and returns the stored value, whatever that value is; when
\* made later it invokes the function again.
C12_CachedWithinTtl ==
    \A i, j \in 1..Len(c_log) :
        SuccessiveCalls(i, j) =>
            IF c_log[j].time - c_log[i].stored_at <= c_ttl
            THEN ~c_log[j].invoked /\ c_log[j].returned = c_log[i].returned
            ELSE c_log[j].invoked


\* ------------------------------------------------------------------------
\* SpecNormalize: the website normalization applied to one string
\* ------------------------------------------------------------------------
WebsiteChars == {"w", "W", "a", ".", "/", " "}

InitNormalize ==
    /\ RunIdle /\ StartupIdle /\ SearchIdle /\ RetryIdle /\ CacheIdle
    /\ fn_pc = "call"
    /\ fn_input \in SeqsUpTo(WebsiteChars, MaxWebsiteLen)
    /\ fn_output = <<>>

\* normalized_website = company_website.strip().lower().replace('www.','').rstrip('/')
Normalize ==
    /\ fn_pc = "call"
    /\ fn_output' = normalized_website(fn_input)
    /\ fn_pc' = "returned"
    /\ UNCHANGED <<fn_input, run_vars, startup_vars, search_vars, retry_vars, cache_vars>>

NextNormalize == Normalize

SpecNormalize == InitNormalize /\ [][NextNormalize]_vars

W_WWW_Foo == <<"W","W","W",".","F","o","o",".","c","o","m","/">>
W_foo     == <<"f","o","o",".","c","o","m">>

\* C13: normalizing a normalized website changes nothing, for every input, and
\* "WWW.Foo.com/" and "foo.com" normalize to the same string.
C13_NormalizeIdempotent ==
    /\ normalized_website(W_WWW_Foo) = normalized_website(W_foo)
    /\ fn_pc = "returned" => normalized_website(fn_output) = fn_output

\* ------------------------------------------------------------------------
\* parse_analysis_results (company_extractor.py)
\*
\* The analysis text is a sequence of lines.  A line is an email line
\* ("Contact Email: a@b"), a heading ("Pain Points:") or an item (an optional
\* list marker and a body).  A piece of text cut out of it is a sequence of
\* [marker, text] lines; the string it stands for joins them with "\n".
\* ------------------------------------------------------------------------
EmailLine(label, local, domain) ==
    [kind |-> "email", label |-> label, local |-> local, domain |-> domain]
HeadingLine(label) == [kind |-> "heading", label |-> label]
ItemLine(marker, body) == [kind |-> "item", marker |-> marker, body |-> body]

TextLine(marker, text) == [marker |-> marker, text |-> text]

address(line) == line.local \o "@" \o line.domain

\* the characters of one line of a piece of text, and of the whole piece
line_len(l) == (IF l.marker = "" THEN 0 ELSE Len(l.marker) + 1) + Len(l.text)
RECURSIVE text_len(_)
text_len(ls) ==
    IF ls = <<>> THEN 0
    ELSE line_len(Head(ls)) + (IF Len(ls) > 1 THEN 1 ELSE 0) + text_len(Tail(ls))

\* a line as it stands in the text
render(line) ==
    CASE line.kind = "email"   -> TextLine("", line.label \o ": " \o address(line))
      [] line.kind = "heading" -> TextLine("", line.label \o ":")
      [] OTHER                 -> TextLine(line.marker, line.body)

RECURSIVE render_all(_)
render_all(lines) ==
    IF lines = <<>> THEN <<>> ELSE <<render(Head(lines))>> \o render_all(Tail(lines))

\* invalid_email_domains_or_parts: 'info@' in e_lower and the like
InvalidLocalEndings == {"yourname", "email", "contact", "info", "sales"}
InvalidDomainParts == {"example.com", "yourdomain.com", "test.com", "sentry.io",
                       "wixpress.com", "wordpress.org", "example.org", "localhost"}
is_valid_email(line) ==
    /\ line.local \notin InvalidLocalEndings
    /\ line.domain \notin InvalidDomainParts

\* re.findall(email_pattern, cleaned_result), filtered
valid_emails(lines) ==
    SelectSeq(lines, LAMBDA l : l.kind = "email" /\ is_valid_email(l))

PainLabels == {"Pain Points", "Key Challenges", "Identified Opportunities",
               "Analysis Summary", "Business Needs", "Client Issues"}
is_numbered(marker) == marker \in {"1.", "2.", "3."}

first_index(ls, test(_)) ==
    IF \E i \in 1..Len(ls) : test(ls[i])
    THEN CHOOSE i \in 1..Len(ls) : test(ls[i]) /\ \A j \in 1..(i - 1) : ~test(ls[j])
    ELSE 0

\* lines of ls up to the first one for which stop holds
take_until(ls, stop(_)) ==
    IF first_index(ls, stop) = 0 THEN ls
    ELSE SubSeq(ls, 1, first_index(ls, stop) - 1)

\* pattern 1: a labelled section, up to "Email:", "Contact Email:" or the end
labelled_block(lines) ==
    LET h == first_index(lines, LAMBDA l : l.kind = "heading" /\ l.label \in PainLabels)
    IN IF h = 0 THEN [matched |-> FALSE, block |-> <<>>]
       ELSE [matched |-> TRUE,
             block |-> render_all(take_until(SubSeq(lines, h + 1, Len(lines)),
                                             LAMBDA l : l.kind = "email"))]

\* pattern 3: the first numbered item, up to the next numbered item or the end
numbered_block(lines) ==
    LET n == first_index(lines, LAMBDA l : l.kind = "item" /\ is_numbered(l.marker))
    IN IF n = 0 THEN [matched |-> FALSE, block |-> <<>>]
       ELSE [matched |-> TRUE,
             block |-> <<TextLine("", lines[n].body)>>
                       \o render_all(take_until(SubSeq(lines, n + 1, Len(lines)),
                              LAMBDA l : l.kind = "item" /\ is_numbered(l.marker)))]

\* the loop over pain_point_patterns: a block of more than 20 characters ends
\* it, a shorter one is kept until a later pattern matches
extracted_block(lines) ==
    LET first == labelled_block(lines)
        third == numbered_block(lines)
    IN IF first.matched /\ text_len(first.block) > 20 THEN first.block
       ELSE IF third.matched THEN third.block
       ELSE IF first.matched THEN first.block
       ELSE <<>>

\* the fallback when no block was found
fallback_pain_points(lines, email_at) ==
    IF email_at = 0 THEN render_all(lines)
    ELSE LET before == render_all(SubSeq(lines, 1, email_at - 1))
                           \o <<TextLine("", lines[email_at].label \o ":")>>
             after  == render_all(SubSeq(lines, email_at + 1, Len(lines)))
         IN IF text_len(after) > 20 THEN after
            ELSE IF text_len(before) > 20 THEN before
            ELSE before \o after

\* re.sub(r"^\s*[-\*...\d\.\s]+", "", ..., flags=re.MULTILINE): markers go
RECURSIVE strip_markers(_)
strip_markers(ls) ==
    IF ls = <<>> THEN <<>>
    ELSE (IF Head(ls).text = "" THEN <<>> ELSE <<Head(ls).text>>)
         \o strip_markers(Tail(ls))

NoPainPoints == "No specific pain points identified in the output."

parse_analysis_results(analysis_text) ==
    IF ~analysis_text.isstr
    THEN [email |-> "", pain_points |-> <<"Analysis failed - non-string result">>]
    ELSE LET lines == analysis_text.lines
             found == valid_emails(lines)
             email == IF found # <<>> THEN address(found[1]) ELSE ""
             email_at == IF found = <<>> THEN 0
                         ELSE first_index(lines, LAMBDA l : l = found[1])
             block == extracted_block(lines)
             chosen == IF text_len(block) > 0 THEN block
                       ELSE fallback_pain_points(lines, email_at)
             pain_points_str == strip_markers(chosen)
         IN [email |-> email,
             pain_points |-> IF pain_points_str = <<>> \/ pain_points_str = <<email>>
                             THEN <<NoPainPoints>> ELSE pain_points_str]

\* ------------------------------------------------------------------------
\* SpecAnalysis: parse_analysis_results applied to one analysis text
\* ------------------------------------------------------------------------

B_long  == "Long lead times on veneer"
B_long2 == "Inconsistent grain matching"

EmailLines ==
    { EmailLine("Contact Email", "info", "acme.com"),
      EmailLine("Contact Email", "jane", "acme.com"),
      EmailLine("Email", "jane", "example.com") }

ItemLines ==
    { ItemLine("1.", "X"), ItemLine("2.", "Y"),
      ItemLine("1.", B_long), ItemLine("2.", B_long2), ItemLine("-", B_long) }

\* email line first, email line last, or none; with or without the heading
AnalysisTexts ==
    LET bodies == {its \in SeqsUpTo(ItemLines, MaxItems) : TRUE}
        sections == bodies \cup {<<HeadingLine("Pain Points")>> \o its : its \in bodies}
    IN sections
       \cup {<<e>> \o sec : e \in EmailLines, sec \in sections}
       \cup {sec \o <<e>> : e \in EmailLines, sec \in sections}

InitAnalysis ==
    /\ RunIdle /\ StartupIdle /\ SearchIdle /\ RetryIdle /\ CacheIdle
    /\ fn_pc = "call"
    /\ fn_input \in {[isstr |-> TRUE, lines |-> ls] : ls \in AnalysisTexts}
                    \cup {[isstr |-> FALSE, lines |-> <<>>]}
    /\ fn_output = <<>>

ParseAnalysis ==
    /\ fn_pc = "call"
    /\ fn_output' = parse_analysis_results(fn_input)
    /\ fn_pc' = "returned"
    /\ UNCHANGED <<fn_input, run_vars, startup_vars, search_vars, retry_vars, cache_vars>>

NextAnalysis == ParseAnalysis

SpecAnalysis == InitAnalysis /\ [][NextAnalysis]_vars

ScenarioC ==
    [isstr |-> TRUE,
     lines |-> << EmailLine("Contact Email", "info", "acme.com"),
                  HeadingLine("Pain Points"),
                  ItemLine("1.", "X"), ItemLine("2.", "Y") >>]

\* C14: "Contact Email: info@acme.com\nPain Points:\n1. X\n2. Y" parses to the
\* email "info@acme.com" and the pain points "X\nY".
C14_ScenarioC ==
    (fn_pc = "returned" /\ fn_input = ScenarioC) =>
        /\ fn_output.email = "info@acme.com"
        /\ fn_output.pain_points = <<"X", "Y">>

\* ------------------------------------------------------------------------
\* SpecReview: the review cycle of the enrichment (company_extractor.py
\* lines 311-370).  The block follows the `return rows` of line 243, so no
\* call reaches it; it is modelled as written, applied to one analyzed
\* pain-points value and one answer of the review crew.
\* ------------------------------------------------------------------------
\* startswith on a text kept as its lines (no prefix here holds a newline)
pain_startswith(pain_points, prefix) ==
    pain_points # <<>> /\ startswith(pain_points[1], prefix)

\* len() of a text kept as its lines
RECURSIVE pain_len(_)
pain_len(pain_points) ==
    IF pain_points = <<>> THEN 0
    ELSE Len(Head(pain_points)) + (IF Len(pain_points) > 1 THEN 1 ELSE 0)
         + pain_len(Tail(pain_points))

\* lines 311-314: the two tests that skip the review cycle
review_skipped(reviewer_agent, initial_pain_points) ==
    \/ ~reviewer_agent
    \/ initial_pain_points = <<>>
    \/ pain_startswith(initial_pain_points, "Initial analysis failed")
    \/ pain_startswith(initial_pain_points, "Analysis failed")
    \/ pain_startswith(initial_pain_points, "Analysis skipped")

\* lines 352-364: what the review's answer does to pain_points
reviewed_or_initial(review_raw_output, initial_pain_points) ==
    LET reviewed_pain_points == parse_analysis_results(review_raw_output).pain_points
    IN IF /\ reviewed_pain_points # <<>>
          /\ ~pain_startswith(reviewed_pain_points, "Analysis failed")
          /\ reviewed_pain_points # initial_pain_points
          /\ pain_len(reviewed_pain_points) > 10
          /\ reviewed_pain_points # <<NoPainPoints>>
       THEN reviewed_pain_points
       ELSE initial_pain_points

\* lines 311-370: was the review crew kicked off, and the final pain_points
review_cycle(reviewer_agent, initial_pain_points, review_task, review_kickoff) ==
    IF review_skipped(reviewer_agent, initial_pain_points)
    THEN [invoked |-> FALSE, pain_points |-> initial_pain_points]
    ELSE IF ~review_task
    THEN [invoked |-> FALSE, pain_points |-> initial_pain_points]
    ELSE IF review_kickoff.kind \in {"raise", "none"}
    THEN [invoked |-> TRUE, pain_points |-> initial_pain_points]
    ELSE [invoked |-> TRUE,
          pain_points |-> reviewed_or_initial(review_kickoff.text, initial_pain_points)]

InitialPainPoints ==
    { <<>>,
      <<"Initial analysis failed: No output object.">>,
      <<"Analysis failed - non-string result">>,
      <<NoPainPoints>>,
      <<"X", "Y">>,
      <<B_long>> }

ReviewTexts ==
    { <<HeadingLine("Pain Points")>>,
      <<HeadingLine("Pain Points"), ItemLine("1.", "X")>>,
      <<HeadingLine("Pain Points"), ItemLine("1.", B_long)>>,
      <<HeadingLine("Pain Points"), ItemLine("1.", B_long), ItemLine("2.", B_long2)>> }

ReviewKickoffs ==
    {[kind |-> k, text |-> [isstr |-> TRUE, lines |-> <<>>]] : k \in {"raise", "none"}}
    \cup {[kind |-> "text", text |-> [isstr |-> TRUE, lines |-> ls]] : ls \in ReviewTexts}

InitReview ==
    /\ RunIdle /\ StartupIdle /\ SearchIdle /\ RetryIdle /\ CacheIdle
    /\ fn_pc = "call"
    /\ fn_input \in [reviewer_agent : BOOLEAN, initial_pain_points : InitialPainPoints,
                     review_task : BOOLEAN, review_kickoff : ReviewKickoffs]
    /\ fn_output = <<>>

ReviewCycle ==
    /\ fn_pc = "call"
    /\ fn_output' = review_cycle(fn_input.reviewer_agent, fn_input.initial_pain_points,
                                 fn_input.review_task, fn_input.review_kickoff)
    /\ fn_pc' = "returned"
    /\ UNCHANGED <<fn_input, run_vars, startup_vars, search_vars, retry_vars, cache_vars>>

NextReview == ReviewCycle

SpecReview == InitReview /\ [][NextReview]_vars

C20_ReviewSkippedOnFailurePrefix ==
    (/\ fn_pc = "returned"
     /\ \/ ~fn_input.reviewer_agent
        \/ fn_input.initial_pain_points = <<>>
        \/ \E prefix \in {"Initial analysis failed", "Analysis failed", "Analysis skipped"} :
               pain_startswith(fn_input.initial_pain_points, prefix))
        => /\ ~fn_output.invoked
           /\ fn_output.pain_points = fn_input.initial_pain_points

\* ------------------------------------------------------------------------
\* Extraction stage (company_extractor.py, utils/parser.py)
\*
\* A candidate is [name, website], both tuples of characters.  The text of
\* the extraction crew is [kind, items]: a JSON array or Python-literal list
\* of the items, a JSON object, or prose in which the label patterns match
\* the items.  An item is a dict with its 'name' and 'website' values, each
\* possibly not a str.
\* ------------------------------------------------------------------------
Candidate(name, website) == [name |-> name, website |-> website]
Item(name, website) ==
    [isdict |-> TRUE, name_isstr |-> TRUE, name |-> name,
     website_isstr |-> TRUE, website |-> website]

N_AcmeCorp == <<"A","c","m","e"," ","C","o","r","p">>
N_Acme     == <<"A","c","m","e">>
N_Company  == <<"C","o","m","p","a","n","y">>
N_BetaInc  == <<"B","e","t","a"," ","I","n","c">>
N_Gamma    == <<"G","a","m","m","a"," ","W","o","r","k","s">>
W_acme     == <<"h","t","t","p",":","/","/","a","c","m","e",".","c","o","m">>
W_acme_www == <<"h","t","t","p",":","/","/","w","w","w",".","A","c","m","e",".","c","o","m","/">>
W_beta     == <<"h","t","t","p",":","/","/","b","e","t","a",".","i","o">>
W_ftp      == <<"f","t","p",":","/","/","b","e","t","a",".","i","o">>

HttpPrefix == <<"h","t","t","p">>

\* the test both list strategies apply to one item
valid_company_item(item) ==
    /\ item.isdict
    /\ item.name_isstr /\ item.website_isstr
    /\ strip(item.name) # <<>>
    /\ startswith(strip(item.website), HttpPrefix)
    /\ 1 < Len(item.name) /\ Len(item.name) < 60

RECURSIVE companies_of_list(_)
companies_of_list(items) ==
    IF items = <<>> THEN <<>>
    ELSE (IF valid_company_item(Head(items))
          THEN <<Candidate(strip(Head(items).name), strip(Head(items).website))>>
          ELSE <<>>)
         \o companies_of_list(Tail(items))

\* the regex strategy: matches validated and de-duplicated by lower-cased name
RECURSIVE companies_of_matches(_, _)
companies_of_matches(matches, companies) ==
    IF matches = <<>> THEN companies
    ELSE LET name == strip(Head(matches).name)
             website == strip(Head(matches).website)
             ok == /\ name # <<>>
                   /\ startswith(website, HttpPrefix)
                   /\ 1 < Len(name) /\ Len(name) < 60
                   /\ ~\E i \in 1..Len(companies) : lower(companies[i].name) = lower(name)
         IN companies_of_matches(Tail(matches),
                IF ok THEN Append(companies, Candidate(name, website)) ELSE companies)

\* A match of a label pattern: the two groups
Match(name, website) == [name |-> name, website |-> website]

N_website == <<"w","e","b","s","i","t","e">>

\* the second group of every pattern, https?://..., on the text of a value
http_value(item) == item.website_isstr /\ startswith(item.website, HttpPrefix)

\* the first group of the third pattern, [^",\n]{2,60}, on the text of a value
name_value(item) == item.name_isstr /\ Len(item.name) >= 2

\* second pattern on JSON text: in '"website": "http://..."' the key itself
\* is taken for the name
RECURSIVE key_matches(_)
key_matches(items) ==
    IF items = <<>> THEN <<>>
    ELSE (IF http_value(Head(items))
          THEN <<Match(N_website, Head(items).website)>> ELSE <<>>)
         \o key_matches(Tail(items))

\* third pattern on JSON text: a "name" value, then lazily the next
\* "website" value that is an http(s) URL, be it in a later dict
RECURSIVE name_matches(_, _)
name_matches(items, pending) ==
    IF items = <<>> THEN <<>>
    ELSE LET item == Head(items)
             name == IF pending # <<>> THEN pending
                     ELSE IF name_value(item)
                     THEN <<SubSeq(item.name, 1, Min(Len(item.name), 60))>>
                     ELSE <<>>
         IN IF name = <<>> THEN name_matches(Tail(items), <<>>)
            ELSE IF http_value(item)
            THEN <<Match(name[1], item.website)>> \o name_matches(Tail(items), <<>>)
            ELSE name_matches(Tail(items), name)

\* re.findall of the three label patterns, one after the other: prose holds
\* the matches as its items; JSON text is matched by the second and third
\* pattern; the single-quoted text of a Python literal by none
re_findall_companies(text) ==
    CASE text.kind = "prose" -> text.items
      [] text.kind \in {"json_list", "json_object"} ->
             key_matches(text.items) \o name_matches(text.items, <<>>)
      [] OTHER -> <<>>

\* parse_company_data, imported as parse_company_website_list
parse_company_website_list(text) ==
    LET json_data == json_loads(text)
        json_companies == IF json_data.kind = "list"
                          THEN companies_of_list(json_data.items) ELSE <<>>
        potential_list == literal_eval(text)
        literal_companies == IF potential_list.kind = "list"
                             THEN companies_of_list(potential_list.items) ELSE <<>>
    IN IF text.kind = "not_str" THEN <<>>
       ELSE IF json_companies # <<>> THEN json_companies
       ELSE IF literal_companies # <<>> THEN literal_companies
       ELSE companies_of_matches(re_findall_companies(text), <<>>)

\* ------------------------------------------------------------------------
\* SpecCompanies: parse_company_data applied to one extraction output
\* ------------------------------------------------------------------------
I_acme     == Item(N_AcmeCorp, W_acme)
I_acme_www == Item(N_Acme, W_acme_www)
I_generic  == Item(N_Company, W_acme)
I_beta     == Item(N_BetaInc, W_beta)
I_ftp      == Item(N_Gamma, W_ftp)

N_acme_lower == <<"a","c","m","e">>
N_padded     == <<" ","A"," ">>
N_sixty      == [i \in 1..60 |-> "x"]

I_acme_lower == Item(N_acme_lower, W_beta)
I_padded     == Item(N_padded, W_acme)
I_sixty      == Item(N_sixty, W_acme)
I_not_str    == [isdict |-> TRUE, name_isstr |-> FALSE, name |-> <<>>,
                 website_isstr |-> TRUE, website |-> W_acme]

CompanyItems == {I_acme, I_acme_www, I_acme_lower, I_padded, I_sixty, I_not_str,
                 I_ftp, I_beta}

InitCompanies ==
    /\ RunIdle /\ StartupIdle /\ SearchIdle /\ RetryIdle /\ CacheIdle
    /\ fn_pc = "call"
    /\ fn_input \in {[kind |-> tk, items |-> its] :
                        tk \in TextKinds, its \in SeqsUpTo(CompanyItems, MaxCompanyItems)}
    /\ fn_output = <<>>

ParseCompanies ==
    /\ fn_pc = "call"
    /\ fn_output' = parse_company_website_list(fn_input)
    /\ fn_pc' = "returned"
    /\ UNCHANGED <<fn_input, run_vars, startup_vars, search_vars, retry_vars, cache_vars>>

NextCompanies == ParseCompanies

SpecCompanies == InitCompanies /\ [][NextCompanies]_vars

\* C15: every candidate of a result of parse_company_data has a name of 2 to
\* 59 characters and a website that starts with a URL scheme, and no two
\* candidates of one result have names equal ignoring case.
C15_CandidatesValid ==
    fn_pc = "returned" =>
        /\ \A i \in 1..Len(fn_output) :
              /\ 2 <= Len(fn_output[i].name) /\ Len(fn_output[i].name) <= 59
              /\ startswith(fn_output[i].website, HttpPrefix)
        /\ \A i, j \in 1..Len(fn_output) :
              i # j => lower(fn_output[i].name) # lower(fn_output[j].name)


\* --- _fallback_list_parser: markup is [wikitable, li]: the rows (cell texts)
\* --- of table.wikitable, and the texts of the ul/ol list items
Letters == {UpperChars[i] : i \in 1..26} \cup {LowerChars[i] : i \in 1..26}
Digits == {"0","1","2","3","4","5","6","7","8","9"}
NameChars == Letters \cup Digits \cup {" ", "&", ".", ",", "'", "(", ")", "-"}

RECURSIVE word_count(_, _)
word_count(s, in_word) ==
    IF s = <<>> THEN 0
    ELSE IF Head(s) \in Whitespace THEN word_count(Tail(s), FALSE)
    ELSE (IF in_word THEN 0 ELSE 1) + word_count(Tail(s), TRUE)

\* re.fullmatch(r"[A-Za-z][A-Za-z0-9 &.,'()-]{4,}", txt)
looks_like_name(txt) ==
    /\ Len(txt) >= 5
    /\ txt[1] \in Letters
    /\ \A i \in 2..Len(txt) : txt[i] \in NameChars

RECURSIVE wikitable_rows(_)
wikitable_rows(trs) ==
    IF trs = <<>> THEN <<>>
    ELSE LET tds == Head(trs)
             name == IF Len(tds) >= 2 THEN strip(tds[2]) ELSE <<>>
         IN (IF Len(tds) >= 2 /\ name # <<>> /\ word_count(name, FALSE) > 1
             THEN <<Candidate(name, <<>>)>> ELSE <<>>)
            \o wikitable_rows(Tail(trs))

RECURSIVE li_rows(_)
li_rows(lis) ==
    IF lis = <<>> THEN <<>>
    ELSE (IF looks_like_name(strip(Head(lis)))
          THEN <<Candidate(strip(Head(lis)), <<>>)>> ELSE <<>>)
         \o li_rows(Tail(lis))

fallback_list_parser(html) ==
    LET rows == wikitable_rows(html.wikitable)
    IN IF rows # <<>> THEN rows ELSE li_rows(html.li)

\* generic_scraper_tool(url): the call raises, or the tool returns one of its
\* 'Error: ...' strings (timeout, HTTP status, non-HTML), or it returns a page
fetch_failed(fetch) == fetch.kind \in {"raise", "error"}

fetch_events(fetch) == IF fetch_failed(fetch) THEN <<"fetch", "failed">> ELSE <<"fetch">>

\* generic_scraper_tool(url) followed by _fallback_list_parser, inside its
\* try/except: the rows, or nothing when the fetch raised
guarded_fallback(fetch, otherwise) ==
    IF fetch.kind = "raise" THEN otherwise ELSE fallback_list_parser(fetch.html)

\* extract_companies_from_url: what it returns and, in order, what it invoked
extract_companies_from_url_unguarded(url, research_agent, extraction_task, first_fetch, kickoff, second_fetch) ==
    IF ~research_agent \/ ~extraction_task
    THEN [exc |-> FALSE, val |-> <<>>, events |-> <<>>]
    ELSE LET early == guarded_fallback(first_fetch, <<>>)
         IN IF kickoff.kind = "raise"
            THEN [exc |-> FALSE, val |-> early,
                  events |-> fetch_events(first_fetch) \o <<"kickoff">>]
            ELSE IF kickoff.kind \in {"none", "other"}
            THEN [exc |-> FALSE, val |-> early,
                  events |-> fetch_events(first_fetch) \o <<"kickoff">>]
            ELSE LET parsed == parse_company_website_list(kickoff.text)
                 IN IF parsed # <<>>
                    THEN [exc |-> FALSE, val |-> parsed,
                          events |-> fetch_events(first_fetch) \o <<"kickoff", "parse">>]
                    ELSE [exc |-> second_fetch.kind = "raise",
                          val |-> guarded_fallback(second_fetch, <<>>),
                          events |-> fetch_events(first_fetch) \o <<"kickoff", "parse">>
                                     \o fetch_events(second_fetch)]
extract_companies_from_url(url, research_agent, extraction_task, first_fetch, kickoff, second_fetch) ==
    IF ~research_agent \/ ~extraction_task
    THEN [exc |-> FALSE, val |-> <<>>, events |-> <<>>]
    ELSE LET early == guarded_fallback(first_fetch, <<>>)       \* lines 133-142
         IN IF kickoff.kind = "raise"
            THEN [exc |-> FALSE, val |-> early,
                  events |-> fetch_events(first_fetch) \o <<"kickoff">>]
            ELSE IF kickoff.kind \in {"none", "other"}
            THEN [exc |-> FALSE, val |-> early,
                  events |-> fetch_events(first_fetch) \o <<"kickoff">>]
            ELSE LET parsed == parse_company_website_list(kickoff.text)
                 IN IF parsed # <<>>
                    THEN [exc |-> FALSE, val |-> parsed,
                          events |-> fetch_events(first_fetch) \o <<"kickoff", "parse">>]
                    ELSE [exc |-> FALSE, val |-> guarded_fallback(second_fetch, <<>>),
                          events |-> fetch_events(first_fetch) \o <<"kickoff", "parse">>
                                     \o fetch_events(second_fetch)]

\* --- analyze_company: its body ends with the construction of
\* --- final_company_data (line 216); no return statement follows
analyze_company(company_name, company_website, segment_name) == Returned(None)

\* ------------------------------------------------------------------------
\* Task and agent construction (tasks.py, agents.py)
\* ------------------------------------------------------------------------
\* create_search_tasks: [] when the agent or the config is invalid or a Task
\* constructor raises, else [plan_search_task, execute_search_task]
create_search_tasks(research_agent, segment_config, task_raises) ==
    IF ~research_agent THEN <<>>
    ELSE IF segment_config = "" THEN <<>>
    ELSE IF task_raises THEN <<>>
    ELSE <<"plan_search_task", "execute_search_task">>

\* create_extraction_task: None (FALSE) when the agent or the url is invalid
\* or the Task constructor raises
create_extraction_task(url, research_agent, task_raises) ==
    IF ~research_agent THEN FALSE
    ELSE IF ~url.isstr THEN FALSE
    ELSE IF task_raises THEN FALSE
    ELSE TRUE

\* initialize_agents: raises when the LLM factory fails, else a dict that
\* has the 'research' agent
initialize_agents(llm_fails) ==
    IF llm_fails THEN Raised ELSE Returned([research |-> TRUE])

\* ------------------------------------------------------------------------
\* run_lead_generation_process (agent_runner.py)
\* ------------------------------------------------------------------------
UnknownSegment == "Unknown Segment"

\* index of the first config whose SEGMENT_NAME is name_to_find, 0 if none
find_config_or_first(name_to_find) ==
    IF \E i \in 1..Len(TARGET_SEGMENTS) : TARGET_SEGMENTS[i] = name_to_find
    THEN CHOOSE i \in 1..Len(TARGET_SEGMENTS) :
             /\ TARGET_SEGMENTS[i] = name_to_find
             /\ \A j \in 1..(i - 1) : TARGET_SEGMENTS[j] # name_to_find
    ELSE 1
find_config(name_to_find) ==
    IF \E i \in 1..Len(TARGET_SEGMENTS) : TARGET_SEGMENTS[i] = name_to_find
    THEN CHOOSE i \in 1..Len(TARGET_SEGMENTS) :
             /\ TARGET_SEGMENTS[i] = name_to_find
             /\ \A j \in 1..(i - 1) : TARGET_SEGMENTS[j] # name_to_find
    ELSE 0

\* the loop of lines 100-108 over the selected names
RECURSIVE configs_for(_)
configs_for(names) ==
    IF names = <<>> THEN <<>>
    ELSE (IF find_config(Head(names)) # 0
          THEN <<TARGET_SEGMENTS[find_config(Head(names))]>> ELSE <<>>)
         \o configs_for(Tail(names))

\* selected_segment_names and isinstance(selected_segment_names, list)
is_selection(selected) == selected.kind = "list" /\ selected.names # <<>>

select_segments_or_all(selected) ==
    IF is_selection(selected) /\ configs_for(selected.names) # <<>>
    THEN configs_for(selected.names)
    ELSE TARGET_SEGMENTS
select_segments(selected) ==
    IF is_selection(selected)
    THEN configs_for(selected.names)
    ELSE TARGET_SEGMENTS

\* company_website.strip().lower().replace('www.','').rstrip('/') in
\* processed_websites_this_run
already_processed_never(company_website, processed) == FALSE
already_processed_raw(company_website, processed) == company_website \in processed
already_processed_lower(company_website, processed) == lower(strip(company_website)) \in processed
already_processed(company_website, processed) ==
    normalized_website(company_website) \in processed

\* if not company_name or not company_website
missing_name_only(company_name, company_website) == company_name = <<>>
missing_name_or_website(company_name, company_website) ==
    company_name = <<>> \/ company_website = <<>>

is_generic_never(company_name) == FALSE
is_generic(company_name) == lower(company_name) \in GENERIC_COMPANY_NAMES

NoDataSentinel == "Critical: Analysis function returned no data"

\* the record appended to all_processed_companies (lines 197-211)
lead_record(company_analysis_data, company_name, company_website, target_url, segment_name) ==
    IF company_analysis_data # None
    THEN [company_analysis_data EXCEPT !.source_url = target_url,
                                       !.segment_name_internal = segment_name,
                                       !.category = segment_name]
    ELSE [name |-> company_name, website |-> company_website,
          pain_points |-> NoDataSentinel, contact_email |-> "",
          source_url |-> target_url, category |-> segment_name,
          segment_name_internal |-> segment_name]

\* Config.API_RETRY_DELAY / 2 if Config.API_RETRY_DELAY > 0 else 0.5, in ms
sleep_duration_none ==
    IF API_RETRY_DELAY > 0 THEN 0 ELSE 500
sleep_duration ==
    IF API_RETRY_DELAY > 0 THEN (API_RETRY_DELAY * 1000) \div 2 ELSE 500

\* Where the three nested for-loops stand after the current item
after_segment(s) ==
    [pc |-> "segment", seg |-> s + 1, urls |-> <<>>, url |-> 0,
     cands |-> <<>>, cand |-> 0]
after_url_ends_segment(s, urls, u) == after_segment(s)
after_url(s, urls, u) ==
    IF u < Len(urls)
    THEN [pc |-> "url", seg |-> s, urls |-> urls, url |-> u + 1,
          cands |-> <<>>, cand |-> 0]
    ELSE after_segment(s)
after_candidate(s, urls, u, cands, c) ==
    IF c < Len(cands)
    THEN [pc |-> "candidate", seg |-> s, urls |-> urls, url |-> u,
          cands |-> cands, cand |-> c + 1]
    ELSE after_url(s, urls, u)

MoveTo(pos) ==
    /\ pc' = pos.pc
    /\ seg_idx' = pos.seg
    /\ urls_to_process' = pos.urls
    /\ url_idx' = pos.url
    /\ extracted_company_data' = pos.cands
    /\ cand_idx' = pos.cand

\* --- what the collaborators of one run can answer
SelectedChoices ==
    { [kind |-> "none", names |-> <<>>],
      [kind |-> "list", names |-> <<>>],
      [kind |-> "list", names |-> <<UnknownSegment>>],
      [kind |-> "list", names |-> <<TARGET_SEGMENTS[2]>>],
      [kind |-> "list", names |-> <<UnknownSegment, TARGET_SEGMENTS[3], TARGET_SEGMENTS[1]>>] }

RunSearchKickoffs ==
    { [kind |-> "raise", text |-> NoText],
      [kind |-> "bad_raw", text |-> NoText],
      [kind |-> "text", text |-> [kind |-> "json_list", items |-> <<U_de, U_com>>]],
      [kind |-> "text", text |-> [kind |-> "literal_list", items |-> <<U_org, U_com>>]] }


ExtractionKickoffs ==
    { [kind |-> "raise", text |-> NoText],
      [kind |-> "none",  text |-> NoText],
      [kind |-> "text",  text |-> NoText],
      [kind |-> "text",  text |-> [kind |-> "json_list",
                                   items |-> <<I_generic, I_acme, I_acme_www>>]],
      [kind |-> "text",  text |-> [kind |-> "literal_list",
                                   items |-> <<I_acme_www, I_ftp, I_beta>>]] }

H_empty == [wikitable |-> <<>>, li |-> <<>>]
H_table == [wikitable |-> << <<<<"1">>, N_AcmeCorp>>, <<N_Gamma>> >>, li |-> <<N_BetaInc>>]

Fetches ==
    { [kind |-> "raise", html |-> H_empty],
      [kind |-> "error", html |-> H_empty],
      [kind |-> "page",  html |-> H_empty],
      [kind |-> "page",  html |-> H_table] }

Init ==
    /\ SearchIdle /\ RetryIdle /\ CacheIdle /\ FnIdle
    /\ initial_errors = <<>>
    /\ selected_segment_names \in SelectedChoices
    /\ pc = "import"
    /\ segments_to_actually_process = <<>>
    /\ seg_idx = 0
    /\ urls_to_process = <<>>
    /\ url_idx = 0
    /\ extracted_company_data = <<>>
    /\ cand_idx = 0
    /\ all_processed_companies = <<>>
    /\ processed_websites_this_run = {}
    /\ run_errors = <<>>
    /\ result = [kind |-> "pending"]
    /\ visited_segments = <<>>
    /\ search_calls = <<>>
    /\ search_raised = <<>>
    /\ extraction_log = <<>>
    /\ analyze_calls = <<>>
    /\ sleeps = <<>>
    /\ last_outcome = "none"

\* ErrorCollection.has_fatal_errors
has_fatal_errors_never(errors) == FALSE
has_fatal_errors(errors) == \E i \in 1..Len(errors) : errors[i].fatal

\* ErrorCollection.add
error_add(errors, context, fatal) ==
    Append(errors, [context |-> context, fatal |-> fatal])

\* lines 15-59 of agent_runner.py, run when the module is imported: an
\* exception leaves the import, and run_lead_generation_process is never bound
ModuleStartup ==
    /\ pc = "import"
    /\ \E import_error \in BOOLEAN, web_search_tool_is_none \in BOOLEAN,
          missing_keys \in BOOLEAN :
         LET after_tool == IF web_search_tool_is_none
                           THEN error_add(initial_errors, "Tool Initialization", TRUE)
                           ELSE initial_errors
             after_config == IF missing_keys
                             THEN error_add(after_tool, "Configuration", TRUE)
                             ELSE after_tool
         IN IF import_error
            THEN pc' = "import_failed" /\ UNCHANGED initial_errors
            ELSE /\ initial_errors' = after_config
                 /\ pc' = IF has_fatal_errors(after_config)
                          THEN "import_failed" ELSE "start"
    /\ UNCHANGED <<selected_segment_names, segments_to_actually_process, seg_idx,
                   urls_to_process, url_idx, extracted_company_data, cand_idx,
                   all_processed_companies, processed_websites_this_run, run_errors,
                   result, visited_segments, search_calls, search_raised, extraction_log,
                   analyze_calls, sleeps, last_outcome, search_vars, retry_vars,
                   aux_vars>>

\* lines 72-124: agent initialization and segment determination
StartRun ==
    /\ pc = "start"
    /\ \E llm_fails \in BOOLEAN :
         LET agents == initialize_agents(llm_fails)
             segs == select_segments(selected_segment_names)
         IN IF agents.exc
            THEN /\ run_errors' = Append(run_errors,
                       [context |-> "Agent Initialization for Run", fatal |-> TRUE])
                 /\ result' = [kind |-> "error", error |-> "Agent initialization failed",
                               details |-> "LLM Initialization Failed via Factory",
                               processed_companies |-> <<>>]
                 /\ pc' = "done"
                 /\ UNCHANGED <<segments_to_actually_process, seg_idx>>
            ELSE IF ~agents.val.research
            THEN /\ result' = [kind |-> "error", error |-> "Research agent missing",
                               processed_companies |-> <<>>]
                 /\ pc' = "done"
                 /\ UNCHANGED <<run_errors, segments_to_actually_process, seg_idx>>
            ELSE IF is_selection(selected_segment_names) /\ segs = <<>>
            THEN /\ result' = [kind |-> "message",
                               message |-> "No valid segments selected or found for processing.",
                               selected_segments |-> selected_segment_names.names,
                               processed_companies |-> <<>>]
                 /\ pc' = "done"
                 /\ UNCHANGED <<run_errors, segments_to_actually_process, seg_idx>>
            ELSE IF segs = <<>>
            THEN /\ result' = [kind |-> "message", message |-> "No segments to process.",
                               processed_companies |-> <<>>]
                 /\ pc' = "done"
                 /\ UNCHANGED <<run_errors, segments_to_actually_process, seg_idx>>
            ELSE /\ segments_to_actually_process' = segs
                 /\ seg_idx' = 1
                 /\ pc' = "segment"
                 /\ UNCHANGED <<run_errors, result>>
    /\ UNCHANGED <<selected_segment_names, urls_to_process, url_idx,
                   extracted_company_data, cand_idx, all_processed_companies,
                   processed_websites_this_run, visited_segments, search_calls, search_raised,
                   extraction_log, analyze_calls, sleeps, last_outcome,
                   search_vars, retry_vars, aux_vars, startup_vars>>

\* lines 126-148: one iteration of the segment loop up to the URL loop
ProcessSegment ==
    /\ pc = "segment"
    /\ seg_idx <= Len(segments_to_actually_process)
    /\ \E task_raises \in BOOLEAN, kickoff \in RunSearchKickoffs :
         LET segment_name == segments_to_actually_process[seg_idx]
             search_tasks == create_search_tasks(TRUE, segment_name, task_raises)
             found == perform_search(TRUE, search_tasks, kickoff)
             url_list == found.val
         IN /\ visited_segments' = Append(visited_segments, segment_name)
            /\ IF search_tasks = <<>>
               THEN /\ run_errors' = Append(run_errors,
                          [context |-> "Search Task Creation", fatal |-> FALSE])
                    /\ MoveTo(after_segment(seg_idx))
                    /\ UNCHANGED <<search_calls, search_raised>>
               ELSE /\ search_calls' = Append(search_calls, segment_name)
                    /\ search_raised' = Append(search_raised,
                                               kickoff.kind \in {"raise", "bad_raw"})
                    /\ UNCHANGED run_errors
                    /\ IF found.exc
                       THEN /\ pc' = "raised"
                            /\ UNCHANGED <<seg_idx, urls_to_process, url_idx,
                                           extracted_company_data, cand_idx>>
                       ELSE IF url_list = <<>>
                       THEN MoveTo(after_segment(seg_idx))
                       ELSE MoveTo([pc |-> "url", seg |-> seg_idx,
                                    urls |-> SubSeq(url_list, 1,
                                               Min(Len(url_list), MAX_URLS_TO_PROCESS)),
                                    url |-> 1, cands |-> <<>>, cand |-> 0])
    /\ extraction_log' = <<>>
    /\ UNCHANGED <<selected_segment_names, segments_to_actually_process,
                   all_processed_companies, processed_websites_this_run, result,
                   analyze_calls, sleeps, last_outcome,
                   search_vars, retry_vars, aux_vars, startup_vars>>

\* lines 150-168: one iteration of the URL loop up to the candidate loop
ProcessUrl ==
    /\ pc = "url"
    /\ \E task_raises \in BOOLEAN :
         LET target_url == urls_to_process[url_idx]
             extraction_task == create_extraction_task(target_url, TRUE, task_raises)
         IN IF ~extraction_task
            THEN /\ run_errors' = Append(run_errors,
                       [context |-> "Extraction Task Creation", fatal |-> FALSE])
                 /\ MoveTo(after_url(seg_idx, urls_to_process, url_idx))
                 /\ extraction_log' = <<>>
            ELSE \E extracted \in
                     { extract_companies_from_url(target_url, TRUE, extraction_task,
                                                  first_fetch, kickoff, second_fetch) :
                         first_fetch \in Fetches, kickoff \in ExtractionKickoffs,
                         second_fetch \in Fetches } :
                 /\ UNCHANGED run_errors
                 /\ extraction_log' = extracted.events
                 /\ IF extracted.exc
                    THEN /\ pc' = "raised"
                         /\ UNCHANGED <<seg_idx, urls_to_process, url_idx,
                                        extracted_company_data, cand_idx>>
                    ELSE IF extracted.val = <<>>
                    THEN MoveTo(after_url(seg_idx, urls_to_process, url_idx))
                    ELSE MoveTo([pc |-> "candidate", seg |-> seg_idx,
                                 urls |-> urls_to_process, url |-> url_idx,
                                 cands |-> extracted.val, cand |-> 1])
    /\ UNCHANGED <<selected_segment_names, segments_to_actually_process,
                   all_processed_companies, processed_websites_this_run, result,
                   visited_segments, search_calls, search_raised, analyze_calls,
                   sleeps, last_outcome, search_vars, retry_vars, aux_vars, startup_vars>>

\* lines 169-216: one iteration of the candidate loop
ProcessCandidate ==
    /\ pc = "candidate"
    /\ LET company_dict == extracted_company_data[cand_idx]
           company_name == company_dict.name
           company_website == company_dict.website
           segment_name == segments_to_actually_process[seg_idx]
           target_url == urls_to_process[url_idx]
           analysis == analyze_company(company_name, company_website, segment_name)
       IN IF missing_name_or_website(company_name, company_website)
          THEN /\ last_outcome' = "missing"
               /\ MoveTo(after_candidate(seg_idx, urls_to_process, url_idx,
                                         extracted_company_data, cand_idx))
               /\ UNCHANGED <<all_processed_companies, processed_websites_this_run,
                              analyze_calls, sleeps>>
          ELSE IF already_processed(company_website, processed_websites_this_run)
                  THEN /\ last_outcome' = "duplicate"
                       /\ MoveTo(after_candidate(seg_idx, urls_to_process, url_idx,
                                                 extracted_company_data, cand_idx))
                       /\ UNCHANGED <<all_processed_companies,
                                      processed_websites_this_run, analyze_calls, sleeps>>
                  ELSE IF is_generic(company_name)
                  THEN /\ last_outcome' = "generic"
                       /\ MoveTo(after_candidate(seg_idx, urls_to_process, url_idx,
                                                 extracted_company_data, cand_idx))
                       /\ UNCHANGED <<all_processed_companies,
                                      processed_websites_this_run, analyze_calls, sleeps>>
                  ELSE /\ processed_websites_this_run' =
                              processed_websites_this_run
                                  \cup {normalized_website(company_website)}
                       /\ analyze_calls' = Append(analyze_calls,
                              [name |-> company_name, website |-> company_website,
                               segment |-> segment_name, returned |-> analysis.val])
                       /\ IF analysis.exc
                          THEN /\ pc' = "raised"
                               /\ last_outcome' = "raised"
                               /\ UNCHANGED <<seg_idx, urls_to_process, url_idx,
                                              extracted_company_data, cand_idx,
                                              all_processed_companies, sleeps>>
                          ELSE /\ all_processed_companies' =
                                      Append(all_processed_companies,
                                             lead_record(analysis.val, company_name,
                                                         company_website, target_url,
                                                         segment_name))
                               /\ sleeps' = IF sleep_duration > 0
                                            THEN Append(sleeps, sleep_duration)
                                            ELSE sleeps
                               /\ last_outcome' = "analyzed"
                               /\ MoveTo(after_candidate(seg_idx, urls_to_process,
                                             url_idx, extracted_company_data, cand_idx))
    /\ extraction_log' = <<>>
    /\ UNCHANGED <<selected_segment_names, segments_to_actually_process, run_errors,
                   result, visited_segments, search_calls, search_raised, search_vars, retry_vars, aux_vars, startup_vars>>

\* lines 218-225: the loops are over; the list is returned
FinishRun ==
    /\ pc = "segment"
    /\ seg_idx > Len(segments_to_actually_process)
    /\ result' = [kind |-> "leads", processed_companies |-> all_processed_companies]
    /\ pc' = "done"
    /\ extraction_log' = <<>>
    /\ UNCHANGED <<selected_segment_names, segments_to_actually_process, seg_idx,
                   urls_to_process, url_idx, extracted_company_data, cand_idx,
                   all_processed_companies, processed_websites_this_run, run_errors,
                   visited_segments, search_calls, search_raised, analyze_calls, sleeps, last_outcome, search_vars, retry_vars, aux_vars, startup_vars>>

Next == ModuleStartup \/ StartRun \/ ProcessSegment \/ ProcessUrl \/ ProcessCandidate \/ FinishRun

Spec == Init /\ [][Next]_vars

\* ------------------------------------------------------------------------
\* Properties of run_lead_generation_process
\* ------------------------------------------------------------------------
has_both(company_dict) == company_dict.name # <<>> /\ company_dict.website # <<>>

NoTwoRecordsShareWebsite ==
    \A i, j \in 1..Len(all_processed_companies) :
        i # j => normalized_website(all_processed_companies[i].website)
                 # normalized_website(all_processed_companies[j].website)

InOutput(company_website) ==
    \E i \in 1..Len(all_processed_companies) :
        normalized_website(all_processed_companies[i].website)
            = normalized_website(company_website)

EarlierCandidateShares(company_website) ==
    \E j \in 1..(cand_idx - 1) :
        /\ has_both(extracted_company_data[j])
        /\ normalized_website(extracted_company_data[j].website)
               = normalized_website(company_website)

\* C1 as stated: a candidate whose normalized website equals that of an
\* earlier candidate is dropped, and no two records of the output list have
\* equal normalized websites.
C1_SecondCandidateDropped ==
    /\ []NoTwoRecordsShareWebsite
    /\ [][(/\ pc = "candidate"
           /\ has_both(extracted_company_data[cand_idx])
           /\ EarlierCandidateShares(extracted_company_data[cand_idx].website))
          => /\ all_processed_companies' = all_processed_companies
             /\ analyze_calls' = analyze_calls]_vars

\* C1: no two records of the output list ever have equal normalized
\* websites; a complete candidate whose normalized website equals that of a
\* record already in the output list is dropped without enrichment, and a
\* complete candidate with a new website and a non-generic name is enriched
\* and appended.
C1_DedupAgainstEnriched ==
    /\ []NoTwoRecordsShareWebsite
    /\ [][(pc = "candidate" /\ has_both(extracted_company_data[cand_idx]))
          => LET cand == extracted_company_data[cand_idx]
             IN /\ InOutput(cand.website)
                     => /\ all_processed_companies' = all_processed_companies
                        /\ analyze_calls' = analyze_calls
                /\ (~InOutput(cand.website)
                    /\ lower(cand.name) \notin GENERIC_COMPANY_NAMES)
                     => /\ Len(all_processed_companies')
                               = Len(all_processed_companies) + 1
                        /\ all_processed_companies'[Len(all_processed_companies')].website
                               = cand.website]_vars

C1_Witness ==
    /\ last_outcome = "duplicate"
    /\ Len(all_processed_companies) = 1
    /\ all_processed_companies[1].name = N_AcmeCorp
    /\ pc = "url"

\* C2: every accepted candidate gets from analyze_company a dictionary of
\* analysis data, and that returned record is the one appended to the output.
C2_AnalysisRecordAppended ==
    \A i \in 1..Len(analyze_calls) :
        /\ analyze_calls[i].returned # None
        /\ i <= Len(all_processed_companies)
              => all_processed_companies[i].pain_points # NoDataSentinel

ResultShapes ==
    \/ result.kind = "leads"
    \/ result.kind = "message" /\ result.processed_companies = <<>>
    \/ result.kind = "error" /\ result.processed_companies = <<>>

\* Some step of the call can be taken unless it has returned
CanStep ==
    \/ pc = "done"
    \/ pc = "import_failed"
    \/ pc = "import"
    \/ pc = "start"
    \/ pc = "segment"
    \/ pc = "url" /\ url_idx \in 1..Len(urls_to_process)
    \/ pc = "candidate" /\ cand_idx \in 1..Len(extracted_company_data)

\* What is left of the three nested loops, as one number that every step
\* of the call lowers
UrlWeight == MaxCandidates + 1
SegmentWeight == (MAX_URLS_TO_PROCESS + 1) * UrlWeight
SegmentsLeft == Len(segments_to_actually_process) - seg_idx
Rank ==
    CASE pc = "import" ->
             (Len(select_segments(selected_segment_names)) + 1) * SegmentWeight + 1
      [] pc = "start" ->
             (Len(select_segments(selected_segment_names)) + 1) * SegmentWeight
      [] pc = "segment" -> (SegmentsLeft + 1) * SegmentWeight + 1
      [] pc = "url" ->
             SegmentsLeft * SegmentWeight + 1
                 + (Len(urls_to_process) - url_idx + 1) * UrlWeight
      [] pc = "candidate" ->
             SegmentsLeft * SegmentWeight + 1
                 + (Len(urls_to_process) - url_idx) * UrlWeight
                 + (Len(extracted_company_data) - cand_idx + 1)
      [] OTHER -> 0

\* C3: whatever the collaborators do, no exception leaves
\* run_lead_generation_process; the call is never stuck and every step brings
\* it closer to its return, and what it returns is the lead list, a message
\* mapping, or an error mapping.
C3_NeverRaises ==
    /\ [](pc # "raised")
    /\ [](pc = "done" => ResultShapes)
    /\ [](pc # "done" => result.kind = "pending")
    /\ [](CanStep /\ Len(extracted_company_data) <= MaxCandidates)
    /\ [][Rank' < Rank]_vars

C3_Witness ==
    /\ pc = "done"
    /\ result.kind = "leads"
    /\ Len(run_errors) >= 2
    /\ Len(search_calls) < Len(visited_segments)
    /\ Len(result.processed_companies) >= 1

SeqRange(s) == {s[i] : i \in 1..Len(s)}
Configured == SeqRange(TARGET_SEGMENTS)

SegmentsTouched ==
    SeqRange(visited_segments) \cup SeqRange(search_calls)
        \cup {analyze_calls[i].segment : i \in 1..Len(analyze_calls)}
        \cup {all_processed_companies[i].category :
                  i \in 1..Len(all_processed_companies)}

\* C4: with a non-empty list, search, extraction and enrichment run only for
\* configured segments named in the list (each such name is processed, in the
\* list's order); with no list, every configured segment is processed.
C4_OnlySelectedSegments ==
    /\ is_selection(selected_segment_names)
         => SegmentsTouched \subseteq
                (SeqRange(selected_segment_names.names) \cap Configured)
    /\ (is_selection(selected_segment_names) /\ result.kind = "leads")
         => visited_segments
                = SelectSeq(selected_segment_names.names, LAMBDA n : n \in Configured)
    /\ (selected_segment_names.kind = "none" /\ result.kind = "leads")
         => visited_segments = TARGET_SEGMENTS

C4_Witness ==
    /\ pc = "done"
    /\ selected_segment_names.names
           = <<UnknownSegment, TARGET_SEGMENTS[3], TARGET_SEGMENTS[1]>>
    /\ visited_segments = <<TARGET_SEGMENTS[3], TARGET_SEGMENTS[1]>>
    /\ Len(analyze_calls) >= 1

AllNamesUnknown ==
    /\ is_selection(selected_segment_names)
    /\ SeqRange(selected_segment_names.names) \cap Configured = {}

AgentsInitialized == \A i \in 1..Len(run_errors) : ~run_errors[i].fatal

C6_FallbackOnlyAfterCascade ==
    \A i \in 1..Len(extraction_log) :
        extraction_log[i] = "fetch"
            => /\ i > 1
               /\ \E j \in 1..(i - 1) : extraction_log[j] = "kickoff"
               /\ \E j \in 1..(i - 1) : extraction_log[j] = "parse"

HoldsFatal(errors) == \E i \in 1..Len(errors) : errors[i].fatal = TRUE

IsPrefix(a, b) == Len(a) <= Len(b) /\ SubSeq(b, 1, Len(a)) = a

\* C16 (start-up and run): a fatal entry aborts the unit of work. At start-up
\* the module raises and no run starts; inside a run the error mapping is
\* returned with no segment visited, no search and no enrichment.
C16_FatalAborts ==
    /\ HoldsFatal(initial_errors) =>
           /\ pc = "import_failed"
           /\ result.kind = "pending"
           /\ visited_segments = <<>>
    /\ HoldsFatal(run_errors) =>
           /\ pc = "done"
           /\ result.kind = "error"
           /\ result.processed_companies = <<>>
           /\ visited_segments = <<>>
           /\ search_calls = <<>>
           /\ analyze_calls = <<>>

\* C16 (monotonicity): entries of an ErrorCollection are never removed, so
\* has_fatal_errors, once true, is true in every later state.
C16_FatalIsSticky ==
    [][/\ IsPrefix(initial_errors, initial_errors')
       /\ IsPrefix(run_errors, run_errors')
       /\ has_fatal_errors(initial_errors) => has_fatal_errors(initial_errors')
       /\ has_fatal_errors(run_errors) => has_fatal_errors(run_errors')]_vars

\* C16: a fatal entry stays, and the start-up or the run it belongs to is
\* aborted before any segment is processed.
C16_FatalErrors == []C16_FatalAborts /\ C16_FatalIsSticky

C16_Witness ==
    /\ pc = "import_failed"
    /\ Len(initial_errors) = 2
    /\ HoldsFatal(initial_errors)

C16_RunWitness ==
    /\ pc = "done"
    /\ HoldsFatal(run_errors)
    /\ result.kind = "error"

\* C17: an exception of the search crew's kick-off or of the URL processing
\* never leaves perform_search: the run is not in a raised state, the segment
\* whose search failed has no URL to process, and the loop stands at the
\* segment after it (or the run has finished).
C17_SearchFailureSkipsSegment ==
    /\ pc # "raised"
    /\ Len(search_raised) = Len(search_calls)
    /\ (search_raised # <<>> /\ search_raised[Len(search_raised)]) =>
           /\ pc \in {"segment", "done"}
           /\ urls_to_process = <<>>
           /\ seg_idx = Len(visited_segments) + 1

C17_Witness ==
    /\ Len(search_raised) = 2
    /\ search_raised[1]
    /\ ~search_raised[2]
    /\ Len(visited_segments) = 2
    /\ all_processed_companies # <<>>

\* the fetch made after the parsing cascade found nothing has failed
FallbackFailed ==
    /\ Len(extraction_log) >= 2
    /\ extraction_log[Len(extraction_log)] = "failed"
    /\ \E j \in 1..Len(extraction_log) : extraction_log[j] = "parse"

\* the early fetch failed and the collaborator gave nothing to parse
EarlyFetchFailedAlone ==
    extraction_log = <<"fetch", "failed", "kickoff">>

\* C18 (state): extract_companies_from_url never raises, and a URL whose
\* fallback fetch failed has no candidate.
C18_NoCandidatesAfterFailure ==
    /\ pc # "raised"
    /\ (FallbackFailed \/ EarlyFetchFailedAlone) =>
           /\ extracted_company_data = <<>>
           /\ pc \in {"url", "segment", "done"}

\* C18 (step): the extraction whose fallback failed is followed by the next
\* URL of the segment, or by the next segment after the last URL.
C18_ProceedsToNextUrl ==
    [][(pc = "url" /\ (FallbackFailed \/ EarlyFetchFailedAlone)')
         => IF url_idx < Len(urls_to_process)
            THEN /\ pc' = "url"
                 /\ url_idx' = url_idx + 1
                 /\ urls_to_process' = urls_to_process
                 /\ seg_idx' = seg_idx
            ELSE /\ pc' = "segment"
                 /\ seg_idx' = seg_idx + 1]_vars

\* C18: extract_companies_from_url never raises; a failed fallback fetch
\* leaves the URL with zero candidates and the loop goes on with the
\* remaining URLs.
C18_ExtractionNeverRaises == []C18_NoCandidatesAfterFailure /\ C18_ProceedsToNextUrl

C18_Witness ==
    /\ extraction_log = <<"fetch", "kickoff", "parse", "fetch", "failed">>
    /\ pc = "url"
    /\ url_idx = 2
    /\ extracted_company_data = <<>>

\* C19: whatever fails while a candidate is enriched, analyze_company returns
\* a lead record, i.e. a dictionary that has the pain_points and contact_email
\* keys.
C19_AnalyzeReturnsRecord ==
    \A i \in 1..Len(analyze_calls) :
        LET returned == analyze_calls[i].returned
        IN /\ returned # None
           /\ {"pain_points", "contact_email"} \subseteq DOMAIN returned

\* C21: analyze_company is invoked at most once per normalized website in a
\* run, whatever URL or segment the website is extracted from again, and
\* although every enrichment so far has failed (no data returned).
C21_EnrichedAtMostOnce ==
    \A i, j \in 1..Len(analyze_calls) :
        i # j =>
            rstrip(replace(lower(strip(analyze_calls[i].website)),
                           <<"w","w","w",".">>, <<>>), {"/"})
          # rstrip(replace(lower(strip(analyze_calls[j].website)),
                           <<"w","w","w",".">>, <<>>), {"/"})

\* a website enriched (without data) in the first segment is met again in the
\* second segment and skipped
C21_Witness ==
    /\ pc = "candidate"
    /\ seg_idx = 2
    /\ cand_idx >= 2
    /\ last_outcome = "duplicate"
    /\ Len(analyze_calls) = 1
    /\ analyze_calls[1].segment = segments_to_actually_process[1]
    /\ analyze_calls[1].returned = None

\* C22 (state): nothing is raised, and a run that returns its lead list has
\* visited every segment it selected, in order.
C22_AllSegmentsVisited ==
    /\ pc # "raised"
    /\ (pc = "done" /\ result.kind = "leads")
           => visited_segments = segments_to_actually_process

\* C22 (step): the three nested loops advance one position at a time. A
\* segment is left only after its last URL, a URL only after its last
\* candidate, and the run ends only after the last segment.
C22_NoPositionSkipped ==
    [][/\ (pc = "segment" /\ pc' = "segment") => seg_idx' = seg_idx + 1
       /\ (pc = "segment" /\ pc' = "url") => (seg_idx' = seg_idx /\ url_idx' = 1)
       /\ (pc = "segment" /\ pc' = "done")
              => seg_idx = Len(segments_to_actually_process) + 1
       /\ pc = "segment" => pc' \in {"segment", "url", "done"}
       /\ (pc = "url" /\ pc' = "candidate")
              => (seg_idx' = seg_idx /\ url_idx' = url_idx /\ cand_idx' = 1)
       /\ (pc = "url" /\ pc' = "url")
              => (seg_idx' = seg_idx /\ url_idx' = url_idx + 1
                  /\ urls_to_process' = urls_to_process)
       /\ (pc = "url" /\ pc' = "segment")
              => (url_idx = Len(urls_to_process) /\ seg_idx' = seg_idx + 1)
       /\ pc = "url" => pc' \in {"candidate", "url", "segment"}
       /\ (pc = "candidate" /\ pc' = "candidate")
              => (seg_idx' = seg_idx /\ url_idx' = url_idx /\ cand_idx' = cand_idx + 1
                  /\ extracted_company_data' = extracted_company_data)
       /\ (pc = "candidate" /\ pc' = "url")
              => (cand_idx = Len(extracted_company_data)
                  /\ seg_idx' = seg_idx /\ url_idx' = url_idx + 1
                  /\ urls_to_process' = urls_to_process)
       /\ (pc = "candidate" /\ pc' = "segment")
              => (cand_idx = Len(extracted_company_data)
                  /\ url_idx = Len(urls_to_process) /\ seg_idx' = seg_idx + 1)
       /\ pc = "candidate" => pc' \in {"candidate", "url", "segment"}]_vars

\* C22: a recoverable failure of a segment, a URL or a candidate never ends
\* the run early; every remaining candidate, URL and selected segment is
\* still processed before the list is returned.
C22_RunContinues == []C22_AllSegmentsVisited /\ C22_NoPositionSkipped

\* a finished run in which a task creation failed, a search failed and an
\* enrichment returned nothing, and which still visited its second segment
C22_Witness ==
    /\ pc = "done"
    /\ result.kind = "leads"
    /\ Len(visited_segments) >= 2
    /\ run_errors # <<>>
    /\ \E i \in 1..Len(search_raised) : search_raised[i]
    /\ \E i \in 1..Len(all_processed_companies) :
           all_processed_companies[i].pain_points = NoDataSentinel

\* C23 (state): every enrichment call is followed by one sleep of the same
\* strictly positive duration, so a sleep lies between any two successive calls.
C23_SleepAfterEachCall ==
    /\ Len(sleeps) = Len(analyze_calls)
    /\ \A i \in 1..Len(sleeps) :
           /\ sleeps[i] > 0
           /\ sleeps[i] = sleeps[1]
           /\ sleeps[i] = IF API_RETRY_DELAY > 0 THEN API_RETRY_DELAY * 500 ELSE 500

\* C23 (step): a candidate skipped for a missing field, a duplicate website or
\* a generic name causes no enrichment call and no sleep; an enrichment call
\* comes with exactly one sleep.
C23_SkippedCandidatesDoNotSleep ==
    [][/\ (pc = "candidate" /\ last_outcome' \in {"missing", "duplicate", "generic"})
              => (analyze_calls' = analyze_calls /\ sleeps' = sleeps)
       /\ Len(analyze_calls') = Len(analyze_calls) + 1
              => Len(sleeps') = Len(sleeps) + 1
       /\ Len(sleeps') # Len(sleeps)
              => Len(analyze_calls') = Len(analyze_calls) + 1]_vars

\* C23: the orchestrator sleeps a fixed positive delay between successive
\* analyze_company calls, and skipped candidates cause neither call nor delay.
C23_CourtesyDelay == []C23_SleepAfterEachCall /\ C23_SkippedCandidatesDoNotSleep

\* two enrichments, each followed by its sleep, then a skipped duplicate
C23_Witness ==
    /\ Len(analyze_calls) = 2
    /\ sleeps = <<1000, 1000>>
    /\ last_outcome = "duplicate"

\* ------------------------------------------------------------------------
\* SpecParsers: parse_url_list and parse_company_data applied to one value,
\* a text of any kind or a value that is not a str.  The result records what
\* the call returned, the methods it went through, and the methods whose
\* exception an except clause caught.
\* ------------------------------------------------------------------------
InputKinds == TextKinds \cup {"not_str"}

\* an http page, an asset, another scheme, a URL followed by punctuation,
\* one urlparse rejects, and an item that is not a str
ParserUrlItems == {U_com, U_png, U_ftp, U_dot, U_bad, N_five}

\* the methods gone through: the first whose list is not empty returns
methods_tried(text, json_found, literal_found) ==
    IF text.kind = "not_str" THEN <<>>
    ELSE IF json_found THEN <<"json">>
    ELSE IF literal_found THEN <<"json", "literal">>
    ELSE <<"json", "literal", "regex">>

\* json.loads and ast.literal_eval raise on a text they cannot read; each
\* method sits in its own try/except
methods_caught(text, tried) ==
    SelectSeq(tried, LAMBDA m :
        \/ m = "json" /\ json_loads(text).kind = "error"
        \/ m = "literal" /\ literal_eval(text).kind = "error")

InitParsers ==
    /\ RunIdle /\ StartupIdle /\ SearchIdle /\ RetryIdle /\ CacheIdle
    /\ fn_pc = "call"
    /\ fn_input \in
          {[parser |-> "parse_url_list", kind |-> tk, items |-> its] :
              tk \in InputKinds, its \in SeqsUpTo(ParserUrlItems, MaxUrlItems)}
          \cup
          {[parser |-> "parse_company_data", kind |-> tk, items |-> its] :
              tk \in InputKinds, its \in SeqsUpTo(CompanyItems, MaxCompanyItems)}
    /\ fn_output = <<>>

ParseUrlList ==
    /\ fn_pc = "call"
    /\ fn_input.parser = "parse_url_list"
    /\ LET json_data == json_loads(fn_input)
           potential_list == literal_eval(fn_input)
           tried == methods_tried(fn_input,
                        json_data.kind = "list" /\ http_strings(json_data.items) # <<>>,
                        potential_list.kind = "list"
                            /\ http_strings(potential_list.items) # <<>>)
       IN fn_output' = [exc |-> FALSE, val |-> parse_url_list(fn_input),
                        tried |-> tried, caught |-> methods_caught(fn_input, tried)]
    /\ fn_pc' = "returned"
    /\ UNCHANGED <<fn_input, run_vars, startup_vars, search_vars, retry_vars, cache_vars>>

ParseCompanyData ==
    /\ fn_pc = "call"
    /\ fn_input.parser = "parse_company_data"
    /\ LET json_data == json_loads(fn_input)
           potential_list == literal_eval(fn_input)
           tried == methods_tried(fn_input,
                        json_data.kind = "list" /\ companies_of_list(json_data.items) # <<>>,
                        potential_list.kind = "list"
                            /\ companies_of_list(potential_list.items) # <<>>)
       IN fn_output' = [exc |-> FALSE, val |-> parse_company_website_list(fn_input),
                        tried |-> tried, caught |-> methods_caught(fn_input, tried)]
    /\ fn_pc' = "returned"
    /\ UNCHANGED <<fn_input, run_vars, startup_vars, search_vars, retry_vars, cache_vars>>

NextParsers == ParseUrlList \/ ParseCompanyData

SpecParsers == InitParsers /\ [][NextParsers]_vars

\* what each strategy finds in a value, for either parser
FoundByJson(input) ==
    IF input.kind # "json_list" THEN <<>>
    ELSE IF input.parser = "parse_url_list" THEN http_strings(input.items)
    ELSE companies_of_list(input.items)

FoundByLiteral(input) ==
    IF input.kind \notin {"json_list", "literal_list"} THEN <<>>
    ELSE IF input.parser = "parse_url_list" THEN http_strings(input.items)
    ELSE companies_of_list(input.items)

FoundByRegex(input) ==
    IF input.parser = "parse_url_list" THEN parse_url_list_regex(input)
    ELSE companies_of_matches(re_findall_companies(input), <<>>)

\* C24: parse_url_list and parse_company_data try JSON, then the Python
\* literal, then the regular expression; the first strategy that yields a
\* non-empty valid list gives the result and no later strategy is consulted;
\* a JSON or literal value of the wrong shape falls through; when every
\* strategy yields nothing the result is the empty list; and no input, str
\* or not, makes either of them raise.
C24_FirstStrategyWins ==
    fn_pc = "returned" =>
        /\ ~fn_output.exc
        /\ fn_input.kind = "not_str" =>
              fn_output.val = <<>> /\ fn_output.tried = <<>>
        /\ fn_input.kind # "not_str" =>
              /\ FoundByJson(fn_input) # <<>> =>
                    /\ fn_output.val = FoundByJson(fn_input)
                    /\ fn_output.tried = <<"json">>
              /\ FoundByJson(fn_input) = <<>> /\ FoundByLiteral(fn_input) # <<>> =>
                    /\ fn_output.val = FoundByLiteral(fn_input)
                    /\ fn_output.tried = <<"json", "literal">>
              /\ FoundByJson(fn_input) = <<>> /\ FoundByLiteral(fn_input) = <<>> =>
                    /\ fn_output.val = FoundByRegex(fn_input)
                    /\ fn_output.tried = <<"json", "literal", "regex">>
        /\ fn_input.kind = "json_object" => fn_output.val = FoundByRegex(fn_input)

\* a JSON object, the wrong shape for both list strategies, whose text the
\* regular expression still found a company in
C24_Witness ==
    /\ fn_pc = "returned"
    /\ fn_input.parser = "parse_company_data"
    /\ fn_input.kind = "json_object"
    /\ fn_output.tried = <<"json", "literal", "regex">>
    /\ fn_output.val # <<>>
    /\ ~fn_output.exc

\* ------------------------------------------------------------------------
\* SpecStore: one APICache driven through get, set and clear while time
\* passes.  c_log holds the last operation and what it returned.
\* ------------------------------------------------------------------------
StoreKeys == {generate_key("search", <<Arg("str", "veneer")>>, {}),
              generate_key("search", <<Arg("int", "1")>>, {})}

InitStore ==
    /\ RunIdle /\ StartupIdle /\ SearchIdle /\ RetryIdle /\ FnIdle
    /\ c_ttl \in 0..MaxTtl
    /\ cache = EmptyCache
    /\ now = 0
    /\ c_log = <<>>

\* APICache.get(key)
Get ==
    /\ \E key \in StoreKeys :
         LET got == cache_get(cache, key, now, c_ttl)
         IN /\ cache' = got.cache
            /\ c_log' = <<[op |-> "get", key |-> key, returned |-> got.value]>>
    /\ UNCHANGED <<c_ttl, now, run_vars, startup_vars, search_vars, retry_vars, fn_vars>>

\* APICache.set(key, value)
Set ==
    /\ \E key \in StoreKeys, value \in ReturnValues :
         /\ cache' = cache_set(cache, key, value, now)
         /\ c_log' = <<[op |-> "set", key |-> key, returned |-> None]>>
    /\ UNCHANGED <<c_ttl, now, run_vars, startup_vars, search_vars, retry_vars, fn_vars>>

\* APICache.clear()
Clear ==
    /\ cache' = EmptyCache
    /\ c_log' = <<[op |-> "clear", key |-> "", returned |-> None]>>
    /\ UNCHANGED <<c_ttl, now, run_vars, startup_vars, search_vars, retry_vars, fn_vars>>

NextStore == Get \/ Set \/ Clear \/ Tick

SpecStore == InitStore /\ [][NextStore]_vars

\* the entry of key k is older than the time-to-live
Expired(k) == now - cache[k].timestamp > c_ttl

\* C25: APICache evicts lazily only.  An entry leaves the cache solely
\* through a get on its own key once its age exceeds ttl_seconds (that get
\* returns None and the key is absent afterwards) or through clear; set and
\* get on other keys neither remove nor change an entry; a get within the
\* time-to-live returns the stored value and leaves the cache as it was.
C25_LazyEviction ==
    [][(now' = now /\ c_log' # <<>>) =>
        LET op == c_log'[1]
        IN
          /\ \A k \in DOMAIN cache :
                (k \notin DOMAIN cache') =>
                    \/ op.op = "clear"
                    \/ (op.op = "get" /\ op.key = k /\ Expired(k) /\ op.returned = None)
          /\ \A k \in DOMAIN cache :
                (k \in DOMAIN cache' /\ cache'[k] # cache[k]) =>
                    (op.op = "set" /\ op.key = k)
          /\ (op.op = "get" /\ op.key \in DOMAIN cache) =>
                IF Expired(op.key)
                THEN op.returned = None /\ op.key \notin DOMAIN cache'
                ELSE op.returned = cache[op.key].value /\ cache' = cache
          /\ (op.op = "get" /\ op.key \notin DOMAIN cache) =>
                (op.returned = None /\ cache' = cache)
          /\ (op.op = "set") => (DOMAIN cache \subseteq DOMAIN cache')
    ]_vars

\* a get has just evicted its own expired entry while the entry of the other
\* key, as old as it, stays in the cache
C25_Witness ==
    /\ c_log # <<>>
    /\ c_log[1].op = "get"
    /\ c_log[1].returned = None
    /\ c_log[1].key \notin DOMAIN cache
    /\ \E k \in DOMAIN cache : now - cache[k].timestamp > c_ttl

\* C26: at every iteration boundary of the candidate loop the number of
\* output records equals the size of the set of processed websites, and both
\* only grow during a run.
C26_OneRecordPerWebsite ==
    Len(all_processed_companies) = Cardinality(processed_websites_this_run)

C26_OnlyGrow ==
    [][/\ Len(all_processed_companies') >= Len(all_processed_companies)
       /\ SubSeq(all_processed_companies', 1, Len(all_processed_companies))
              = all_processed_companies
       /\ processed_websites_this_run \subseteq processed_websites_this_run'
    ]_vars

C26_RecordsMatchWebsites == []C26_OneRecordPerWebsite /\ C26_OnlyGrow

\* two records and two websites, the last candidate skipped as a duplicate
C26_Witness ==
    /\ pc = "candidate"
    /\ last_outcome = "duplicate"
    /\ Len(all_processed_companies) = 2
    /\ Cardinality(processed_websites_this_run) = 2

\* C27: a candidate whose name or website is empty or missing is never
\* enriched, never appended to the output and its website never added to
\* the set of processed websites; the candidates of the fallback list
\* parser, whose website is the empty string, never become lead records.
C27_NoIncompleteRecords ==
    /\ \A i \in 1..Len(all_processed_companies) :
          /\ all_processed_companies[i].name # <<>>
          /\ all_processed_companies[i].website # <<>>
    /\ \A i \in 1..Len(analyze_calls) :
          analyze_calls[i].name # <<>> /\ analyze_calls[i].website # <<>>

C27_IncompleteCandidateSkipped ==
    [][(pc = "candidate" /\ ~has_both(extracted_company_data[cand_idx]))
        => /\ all_processed_companies' = all_processed_companies
           /\ analyze_calls' = analyze_calls
           /\ processed_websites_this_run' = processed_websites_this_run
           /\ sleeps' = sleeps
    ]_vars

C27_IncompleteNeverEnriched == []C27_NoIncompleteRecords /\ C27_IncompleteCandidateSkipped

\* a row of the fallback list parser has just been skipped, after a complete
\* candidate of an earlier URL became a record
C27_Witness ==
    /\ last_outcome = "missing"
    /\ Len(all_processed_companies) = 1
    /\ Len(analyze_calls) = 1
    /\ Cardinality(processed_websites_this_run) = 1

\* the candidate at hand is complete and carries a generic name
GenericCandidate(company_dict) ==
    has_both(company_dict) /\ lower(company_dict.name) \in GENERIC_COMPANY_NAMES

\* an earlier candidate of this list was generic and had the same
\* normalized website
EarlierGenericShares(company_website) ==
    \E j \in 1..(cand_idx - 1) :
        /\ GenericCandidate(extracted_company_data[j])
        /\ normalized_website(extracted_company_data[j].website)
               = normalized_website(company_website)

C28_NoGenericRecord ==
    \A i \in 1..Len(all_processed_companies) :
        lower(all_processed_companies[i].name) \notin GENERIC_COMPANY_NAMES

C28_GenericLeavesWebsiteFree ==
    [][(pc = "candidate" /\ has_both(extracted_company_data[cand_idx]))
        => LET cand == extracted_company_data[cand_idx]
               fresh == normalized_website(cand.website) \notin processed_websites_this_run
           IN /\ GenericCandidate(cand)
                   => /\ processed_websites_this_run' = processed_websites_this_run
                      /\ all_processed_companies' = all_processed_companies
                      /\ analyze_calls' = analyze_calls
              /\ (~GenericCandidate(cand) /\ fresh /\ EarlierGenericShares(cand.website))
                   => /\ Len(analyze_calls') = Len(analyze_calls) + 1
                      /\ analyze_calls'[Len(analyze_calls')].website = cand.website
                      /\ normalized_website(cand.website) \in processed_websites_this_run'
    ]_vars

\* C28: no output record has a name whose lower-cased form is one of
\* GENERIC_COMPANY_NAMES; rejecting a generic name does not add the website
\* to the set of processed websites, so a later candidate with the same
\* normalized website and a non-generic name is still enriched.
C28_GenericNamesRejected == []C28_NoGenericRecord /\ C28_GenericLeavesWebsiteFree

\* the candidate after a rejected generic one, on the same website, has
\* just been enriched
C28_Witness ==
    /\ pc = "candidate"
    /\ cand_idx = 3
    /\ last_outcome = "analyzed"
    /\ GenericCandidate(extracted_company_data[1])
    /\ all_processed_companies # <<>>
    /\ normalized_website(all_processed_companies[Len(all_processed_companies)].website)
          = normalized_website(extracted_company_data[1].website)
    /\ all_processed_companies[Len(all_processed_companies)].name
          = extracted_company_data[2].name

\* ------------------------------------------------------------------------
\* SpecHandler: the HTTP entry point sj_morse_lead_generator of main.py and
\* of main_1.py applied to one request.  A header or environment value is
\* <<>> when absent and <<s>> when it is the string s.  The response is its
\* status code together with whether run_lead_generation_process was called.
\* ------------------------------------------------------------------------
DefaultApiKey == "sjmorse-secret-key"

\* truth value of an optional string: absent and '' are falsy
truthy(value) == value # <<>> /\ value[1] # ""

Response(status, started) == [status |-> status, started |-> started]

\* main.py lines 77-83 with only the test for a missing key
api_key_rejected_missing_only(expected_api_key, received_api_key) ==
    truthy(expected_api_key) /\ ~truthy(received_api_key)

\* main.py lines 77-83: the request is answered with 401
api_key_rejected(expected_api_key, received_api_key) ==
    /\ truthy(expected_api_key)
    /\ (~truthy(received_api_key) \/ received_api_key # expected_api_key)

\* main.py: sj_morse_lead_generator(request)
main_sj_morse_lead_generator(request) ==
    IF api_key_rejected(request.env_api_key, request.header_api_key)
    THEN Response(401, FALSE)
    ELSE IF request.method = "POST"
    THEN CASE request.run = "raise"      -> Response(500, TRUE)
           [] request.run = "error_dict" -> Response(500, TRUE)
           [] request.run = "leads" /\ request.format = "csv_fails" -> Response(500, TRUE)
           [] OTHER                      -> Response(200, TRUE)
    ELSE Response(405, FALSE)

\* main_1.py: VALID_API_KEY = os.environ.get("MY_SHARED_API_KEY", "sjmorse-secret-key")
VALID_API_KEY(env_api_key) ==
    IF env_api_key = <<>> THEN <<DefaultApiKey>> ELSE env_api_key

\* main_1.py: sj_morse_lead_generator(request)
main_1_sj_morse_lead_generator(request) ==
    IF request.method = "OPTIONS" THEN Response(204, FALSE)
    ELSE IF \/ ~truthy(request.header_api_key)
            \/ request.header_api_key # VALID_API_KEY(request.env_api_key)
    THEN Response(401, FALSE)
    ELSE IF request.method # "POST" THEN Response(405, FALSE)
    ELSE IF request.body # "segments_to_run" THEN Response(400, FALSE)
    ELSE IF request.run = "raise" THEN Response(500, TRUE)
    ELSE Response(200, TRUE)

Methods == {"POST", "GET", "OPTIONS"}
EnvApiKeys == {<<>>, <<"">>, <<"secret">>}
HeaderApiKeys == {<<>>, <<"">>, <<"secret">>, <<"wrong">>, <<DefaultApiKey>>}
Bodies == {"none", "no_segments", "segments_to_run"}
RunOutcomes == {"leads", "error_dict", "raise"}
Formats == {"json", "csv", "csv_fails"}

Requests ==
    [module : {"main", "main_1"}, method : Methods, env_api_key : EnvApiKeys,
     header_api_key : HeaderApiKeys, body : Bodies, run : RunOutcomes,
     format : Formats]

InitHandler ==
    /\ RunIdle /\ StartupIdle /\ SearchIdle /\ RetryIdle /\ CacheIdle
    /\ fn_pc = "call"
    /\ fn_input \in Requests
    /\ fn_output = <<>>

HandleMain ==
    /\ fn_pc = "call"
    /\ fn_input.module = "main"
    /\ fn_output' = main_sj_morse_lead_generator(fn_input)
    /\ fn_pc' = "returned"
    /\ UNCHANGED <<fn_input, run_vars, startup_vars, search_vars, retry_vars, cache_vars>>

HandleMain1 ==
    /\ fn_pc = "call"
    /\ fn_input.module = "main_1"
    /\ fn_output' = main_1_sj_morse_lead_generator(fn_input)
    /\ fn_pc' = "returned"
    /\ UNCHANGED <<fn_input, run_vars, startup_vars, search_vars, retry_vars, cache_vars>>

NextHandler == HandleMain \/ HandleMain1

SpecHandler == InitHandler /\ [][NextHandler]_vars

\* the shared key the deployment is configured with, <<>> when there is none
SharedKey(request) ==
    IF request.module = "main_1" /\ request.env_api_key = <<>>
    THEN <<DefaultApiKey>>
    ELSE request.env_api_key

KeyConfigured(request) == request.module = "main_1" \/ truthy(SharedKey(request))

\* the key of the request is missing or is not the configured one
MissingOrWrongKey(request) ==
    \/ ~truthy(request.header_api_key)
    \/ request.header_api_key # SharedKey(request)

Preflight(request) == request.module = "main_1" /\ request.method = "OPTIONS"

\* C30: sj_morse_lead_generator calls run_lead_generation_process only for
\* a POST request that passed the API-key check.  With a shared key
\* configured, a request whose key is missing or wrong is answered 401; a
\* request of another method than POST is answered 405; the OPTIONS
\* preflight of main_1 is answered 204 before either test; none of these
\* starts the lead generation process.
C30_OnlyAuthorizedPostStartsRun ==
    fn_pc = "returned" =>
        /\ fn_output.started =>
              /\ fn_input.method = "POST"
              /\ KeyConfigured(fn_input) => ~MissingOrWrongKey(fn_input)
        /\ (KeyConfigured(fn_input) /\ MissingOrWrongKey(fn_input)) =>
              /\ ~fn_output.started
              /\ fn_output.status = IF Preflight(fn_input) THEN 204 ELSE 401
        /\ fn_input.method # "POST" =>
              /\ ~fn_output.started
              /\ fn_output.status =
                    IF Preflight(fn_input) THEN 204
                    ELSE IF KeyConfigured(fn_input) /\ MissingOrWrongKey(fn_input)
                    THEN 401 ELSE 405

\* a POST with a wrong key, a key being configured, was answered 401 by
\* main.py
C30_Witness ==
    /\ fn_pc = "returned"
    /\ fn_input.module = "main"
    /\ fn_input.method = "POST"
    /\ fn_input.env_api_key = <<"secret">>
    /\ fn_input.header_api_key = <<"wrong">>
    /\ fn_output = Response(401, FALSE)

====
